---- MODULE Spec2Model ----
(***************************************************************************)
(* A model of the UBPE tokenizer core (Scurrra/ubpe-cython): the base      *)
(* tokenizer, the classic (greedy) and the universal (trie + DP) variants, *)
(* their constructors, fit, encode and decode.                             *)
(*                                                                         *)
(* Documents are sequences of symbols; symbols and token ids are naturals. *)
(* std::map / std::set are functions / sets; iteration over them is in     *)
(* ascending key order, as in the C++ containers.                          *)
(*                                                                         *)
(* Weights are doubles in the code.  They are modelled in fixed point,     *)
(* scaled by Scale: ln(k) is LnS(k) (rounded), a token weight              *)
(* ln((1+N)/(1+df)) is LnS(1+N) - LnS(1+df), and a sequence weight         *)
(* sum (1 + ln c) * w is kept at scale Scale*Scale.                        *)
(***************************************************************************)
EXTENDS Integers, Sequences, FiniteSets, TLC

\* ------------------------------------------------------------- bounds
MaxShortLen == 2
MaxTopN == 2
MaxTokens == 5
MaxAlphabet == 3
MaxCandidates == 2
MaxExpansions == 16

\* ------------------------------------------------------------ helpers
EmptyMap == [x \in {} |-> 0]

Range(s) == {s[i] : i \in DOMAIN s}

Min(S) == CHOOSE x \in S : \A y \in S : x <= y

Max(S) == CHOOSE x \in S : \A y \in S : x >= y

\* lexicographic order of two sequences of integers (std::vector / std::pair
\* / std::tuple operator<)
RECURSIVE LexLess(_, _)
LexLess(a, b) ==
    IF Len(a) = 0 THEN Len(b) > 0
    ELSE IF Len(b) = 0 THEN FALSE
    ELSE IF a[1] # b[1] THEN a[1] < b[1]
    ELSE LexLess(Tail(a), Tail(b))

\* the elements of a finite set S of integer sequences in ascending
\* lexicographic order (the iteration order of a std::map / std::set keyed by
\* vectors)
RECURSIVE LexSorted(_)
LexSorted(S) ==
    IF S = {} THEN <<>>
    ELSE LET m == CHOOSE x \in S : \A y \in S \ {x} : LexLess(x, y)
         IN  <<m>> \o LexSorted(S \ {m})

\* the elements of a finite set of integers in ascending order
RECURSIVE IntSorted(_)
IntSorted(S) ==
    IF S = {} THEN <<>>
    ELSE LET m == Min(S) IN <<m>> \o IntSorted(S \ {m})

RECURSIVE SumSeq(_)
SumSeq(s) == IF Len(s) = 0 THEN 0 ELSE s[1] + SumSeq(Tail(s))

\* a buffer that is not reversed
NotReversed(s) == s

Reverse(s) == [i \in 1..Len(s) |-> s[Len(s) + 1 - i]]

\* all sequences over S of length exactly n / at most n
RECURSIVE SeqsOfLen(_, _)
SeqsOfLen(S, n) ==
    IF n = 0 THEN {<<>>}
    ELSE {<<x>> \o t : x \in S, t \in SeqsOfLen(S, n - 1)}

SeqsUpTo(S, n) == UNION {SeqsOfLen(S, k) : k \in 0..n}

\* ------------------------------------------------- fixed-point numbers
Scale == 10 * 10 * 10

\* round(Scale * ln k) for the k the model can meet
LnS(k) ==
    CASE k = 1 -> 0
      [] k = 2 -> 693
      [] k = 3 -> 1099
      [] k = 4 -> 1386
      [] k = 5 -> 1609
      [] k = 6 -> 1792
      [] k = 7 -> 1946
      [] k = 8 -> 2079
      [] OTHER -> 2197

\* std::log((1 + |corpus|) / (1 + doc_freq)) with a real-valued quotient
TokenWeight(corpus_size, doc_freq) == LnS(1 + corpus_size) - LnS(1 + doc_freq)

\* ------------------------------------------------------- PairCounter
\* adjacent pairs of a document, by position
DocPairs(doc) == [i \in 1..(Len(doc) - 1) |-> <<doc[i], doc[i + 1]>>]

\* PairCounter(corpus): pair -> <<number of documents, number of occurrences>>
\* (`.first` is the document count, `.second` the total count)
PairCounter(corp) ==
    LET all == UNION {Range(DocPairs(corp[d])) : d \in DOMAIN corp}
        total(p) == SumSeq([d \in DOMAIN corp |->
                        Cardinality({i \in DOMAIN DocPairs(corp[d]) :
                                        DocPairs(corp[d])[i] = p})])
        docs(p) == Cardinality({d \in DOMAIN corp : p \in Range(DocPairs(corp[d]))})
    IN  [p \in all |-> <<docs(p), total(p)>>]

\* a lookup that finds no pair
CounterAbsent(counter, p) == <<0, 0>>

\* PairCounter::operator(): <<0, 0>> for a pair that is not in the corpus
CounterAt(counter, p) == IF p \in DOMAIN counter THEN counter[p] ELSE <<0, 0>>

\* the comparison key most_common gives to nlargest: (total, -doc_freq), then
\* the pair itself
McKey(counter, p) == <<counter[p][2], 0 - counter[p][1], p[1], p[2]>>

\* most_common's comparator: a "greater than" on McKey
McGreater(counter, p, q) == LexLess(McKey(counter, q), McKey(counter, p))

\* the pairs of S in ascending comparator order
RECURSIVE McAscending(_, _)
McAscending(counter, S) ==
    IF S = {} THEN <<>>
    ELSE LET m == CHOOSE x \in S : \A y \in S \ {x} : McGreater(counter, y, x)
         IN  <<m>> \o McAscending(counter, S \ {m})

\* nlargest(data, n, {.compare = greater}) over the pairs of the counter
nlargest(counter, n) ==
    LET data == DOMAIN counter
        asc == McAscending(counter, data)
        size == Cardinality(data)
    IN  IF data = {} \/ n = 0 THEN <<>>
        \* std::max_element with the "greater than" comparator
        ELSE IF n = 1 THEN <<asc[1]>>
        \* std::stable_sort with compare(b, a)
        ELSE IF n >= size THEN asc
        \* min-heap of size n, popped into result[n-1] .. result[0]
        ELSE [i \in 1..n |-> asc[size + 1 - i]]

\* PairCounter::most_common(n): sequence of <<pair, total>>
most_common(counter, n) ==
    LET mc == nlargest(counter, n)
    IN  [i \in DOMAIN mc |-> <<mc[i], counter[mc[i]][2]>>]

\* ---------------------------------------------- _replace_token_pairs
\* two-pointer sweep; sub: first_id -> <<second_id, new_id>>.  `right` is the
\* read pointer (1-based), `out` what has been written up to `left`.
RECURSIVE ReplaceFrom(_, _, _, _)
ReplaceFrom(vec, sub, right, out) ==
    IF right > Len(vec) THEN out
    ELSE IF right < Len(vec) /\ vec[right] \in DOMAIN sub
            /\ vec[right + 1] = sub[vec[right]][1]
         THEN ReplaceFrom(vec, sub, right + 2, Append(out, sub[vec[right]][2]))
         ELSE ReplaceFrom(vec, sub, right + 1, Append(out, vec[right]))

\* a sweep that leaves out the last id it wrote
ReplaceDroppingLast(vec, sub) ==
    LET out == ReplaceFrom(vec, sub, 1, <<>>) IN SubSeq(out, 1, Len(out) - 1)

replace_token_pairs(vec, sub) == ReplaceFrom(vec, sub, 1, <<>>)

\* --------------------------------------------------- fit: one round
\* the non-overlapping batch of a round: mc[1] is always taken, then each
\* later candidate unless it shares an id with the batch or a border pair is
\* at least as frequent.  Returns the accepted <<pair, freq>> in order.
RECURSIVE SelectFrom(_, _, _, _, _)
SelectFrom(mc, counter, i, token_pairs, current_set) ==
    IF i > Len(mc) THEN token_pairs
    ELSE LET pair2 == mc[i][1]
             freq2 == mc[i][2]
             good_to_add ==
                 \A k \in DOMAIN token_pairs :
                     LET pair1 == token_pairs[k][1]
                     IN  /\ CounterAt(counter, <<pair2[2], pair1[1]>>)[2] < freq2
                         /\ CounterAt(counter, <<pair1[2], pair2[1]>>)[2] < freq2
         IN  IF pair2[1] \in current_set \/ pair2[2] \in current_set
             THEN SelectFrom(mc, counter, i + 1, token_pairs, current_set)
             ELSE IF good_to_add
                  THEN SelectFrom(mc, counter, i + 1, Append(token_pairs, mc[i]),
                                  current_set \cup {pair2[1], pair2[2]})
                  ELSE SelectFrom(mc, counter, i + 1, token_pairs, current_set)

\* a selection that takes every candidate
SelectEveryCandidate(mc, counter) == mc

SelectBatch(mc, counter) ==
    SelectFrom(mc, counter, 2, <<mc[1]>>, {mc[1][1][1], mc[1][1][2]})

\* backward sequence recorded for a new id: the pair itself (classic) or the
\* concatenation of the components' expansions (universal)
ClassicTokensMap(pair) == <<pair[1], pair[2]>>

UniversalTokensMap(bwd, pair) ==
    (IF pair[1] \in DOMAIN bwd THEN bwd[pair[1]] ELSE <<pair[1]>>)
    \o (IF pair[2] \in DOMAIN bwd THEN bwd[pair[2]] ELSE <<pair[2]>>)

\* ------------------------------------- _rearrange_tokens_by_weight
\* a comparison that leaves the deletion loop one element early
SizeGeqOffByOne(size, raw) == IF raw < 0 THEN FALSE ELSE size + 1 >= raw

\* `size >= quantity` where quantity was computed in size_t (64 bit) from
\* raw = |weights| - n_tokens + alphabet_size: a negative raw wraps to
\* 2^64 + raw, which no container size reaches
SizeGeqUnsigned(size, raw) == IF raw < 0 THEN FALSE ELSE size >= raw

\* a buffer left in id order
SortById(ids, weights) == IntSorted(ids)

\* learned ids, stable-sorted by ascending weight (ties keep id order)
RECURSIVE SortByWeight(_, _)
SortByWeight(ids, weights) ==
    IF ids = {} THEN <<>>
    ELSE LET m == CHOOSE x \in ids : \A y \in ids \ {x} :
                      \/ weights[x] < weights[y]
                      \/ (weights[x] = weights[y] /\ x < y)
         IN  <<m>> \o SortByWeight(ids \ {m}, weights)

\* the indices of buf marked for deletion
RECURSIVE FindToDelete(_, _, _, _, _)
FindToDelete(buf, bwd, quantity, i, to_delete) ==
    IF i > Len(buf) THEN to_delete
    ELSE IF i \in to_delete THEN FindToDelete(buf, bwd, quantity, i + 1, to_delete)
    ELSE IF SizeGeqUnsigned(Cardinality(to_delete), quantity) THEN to_delete
    ELSE FindToDelete(buf, bwd, quantity, i + 1,
             to_delete \cup {i}
                       \cup {j \in (i + 1)..Len(buf) : buf[i] \in Range(bwd[buf[j]])})

\* transformer[el] through std::map::operator[]: an absent key is inserted
\* with the value 0
TransformerAt(transformer, el) ==
    IF el \in DOMAIN transformer THEN transformer[el] ELSE 0

\* the maps after rearrangement, and the old-id -> new-id map that gave
\* them: [bwd, weights, transformer]
rearrange_tokens_by_weight(ntok, asize, bwd, weights) ==
    LET buf == SortByWeight(DOMAIN bwd, weights)
        to_delete_quantity == Cardinality(DOMAIN weights) - ntok + asize
        marked == FindToDelete(buf, bwd, to_delete_quantity, 1, {})
        to_delete == {buf[i] : i \in marked}
        rbuf == Reverse(buf)
        kept == SelectSeq(rbuf, LAMBDA t : t \notin to_delete)
        transformer == [t \in (0..(asize - 1)) \cup Range(kept) |->
                          IF t \in 0..(asize - 1) THEN t
                          ELSE asize - 1 + (CHOOSE k \in DOMAIN kept : kept[k] = t)]
    IN  [weights |-> [n \in {transformer[t] : t \in Range(kept)} |->
                        weights[CHOOSE t \in Range(kept) : transformer[t] = n]],
         bwd |-> [n \in {transformer[t] : t \in Range(kept)} |->
                    LET old == bwd[CHOOSE t \in Range(kept) : transformer[t] = n]
                    IN  [k \in DOMAIN old |-> TransformerAt(transformer, old[k])]],
         transformer |-> transformer]

\* std::transform(backward, inserter(forward)): std::map::insert keeps an
\* existing entry, and of two ids with one backward sequence the lower wins
InsertForward(fwd, bwd) ==
    LET seqs == {bwd[t] : t \in DOMAIN bwd}
    IN  [k \in DOMAIN fwd \cup seqs |->
            IF k \in DOMAIN fwd THEN fwd[k]
            ELSE Min({t \in DOMAIN bwd : bwd[t] = k})]

\* the backward sequences in id order, appended to `pairs`
CachePairs(old_pairs, bwd) ==
    LET ids == IntSorted(DOMAIN bwd)
    IN  old_pairs \o [i \in DOMAIN ids |-> bwd[ids[i]]]

\* ------------------------------------------------------------ SSSTree
\* A node is [key, value, children]; value is <<>> (std::nullopt) or <<v>>;
\* children is a sequence of nodes.  A tree is the sequence of its root
\* children.
NoValue == <<>>

NewNode(key, value) == [key |-> key, value |-> value, children |-> <<>>]

\* length of the common prefix of two keys
RECURSIVE CommonPrefix(_, _, _)
CommonPrefix(a, b, i) ==
    IF i < Len(a) /\ i < Len(b) /\ a[i + 1] = b[i + 1]
    THEN CommonPrefix(a, b, i + 1)
    ELSE i

\* index of the first child whose key starts with x, 0 if none
FirstChild(children, x) ==
    LET hits == {c \in DOMAIN children : children[c].key[1] = x}
    IN  IF hits = {} THEN 0 ELSE Min(hits)

\* SSSTreeNode::operator+ : the node after the insertion of (key, value)
RECURSIVE NodeInsert(_, _, _)
NodeInsert(node, key, value) ==
    LET i == CommonPrefix(node.key, key, 0)
        rest == SubSeq(key, i + 1, Len(key))
        split == [key |-> SubSeq(node.key, i + 1, Len(node.key)),
                  value |-> node.value,
                  children |-> node.children]
    IN  IF i = Len(key)
        THEN IF i = Len(node.key)
             THEN IF node.value = NoValue
                  THEN [node EXCEPT !.value = <<value>>]
                  ELSE node
             ELSE [key |-> key, value |-> <<value>>, children |-> <<split>>]
        ELSE IF i = Len(node.key)
             THEN LET c == FirstChild(node.children, rest[1])
                  IN  IF c # 0
                      THEN [node EXCEPT !.children[c] =
                                NodeInsert(node.children[c], rest, value)]
                      ELSE [node EXCEPT !.children =
                                Append(node.children, NewNode(rest, <<value>>))]
             ELSE [key |-> SubSeq(node.key, 1, i),
                   value |-> NoValue,
                   children |-> <<split, NewNode(rest, <<value>>)>>]

\* SSSTree::operator+
TreeInsert(tree, key, value) ==
    LET c == FirstChild(tree, key[1])
    IN  IF c # 0
        THEN [tree EXCEPT ![c] = NodeInsert(tree[c], key, value)]
        ELSE Append(tree, NewNode(key, <<value>>))

\* the element read at 0-based position `start` of `key`; a read at
\* key.size() is past the end of the vector and yields `oob`
KeyAt(key, start, oob) == IF start < Len(key) THEN key[start + 1] ELSE oob

\* SSSTreeNode::operator(): [thrown, stack]; stack holds <<node key, value>>
\* of the nodes on the path, value-less ones included
RECURSIVE NodeLookup(_, _, _, _, _)
NodeLookup(node, key, start, stack, oob) ==
    IF start >= Len(key) THEN [thrown |-> TRUE, stack |-> stack]
    ELSE IF start + Len(node.key) > Len(key) THEN [thrown |-> FALSE, stack |-> stack]
    ELSE IF SubSeq(key, start + 1, start + Len(node.key)) = node.key
         THEN LET pushed == Append(stack, <<node.key, node.value>>)
                  next == start + Len(node.key)
                  c == FirstChild(node.children, KeyAt(key, next, oob))
              IN  IF c # 0
                  THEN NodeLookup(node.children[c], key, next, pushed, oob)
                  ELSE [thrown |-> FALSE, stack |-> pushed]
         ELSE [thrown |-> FALSE, stack |-> stack]

\* the stack with every node key replaced by the key accumulated by the
\* erase_if predicate, starting from the empty key at position `from`
RECURSIVE Accumulate(_, _, _)
Accumulate(stack, from, sub_key) ==
    IF from > Len(stack) THEN <<>>
    ELSE LET k == sub_key \o stack[from][1]
         IN  <<<<k, stack[from][2]>>>> \o Accumulate(stack, from + 1, k)

\* std::erase_if(stack, stateful predicate).  With the predicate passed by
\* reference the key accumulates over the whole stack.  A std::remove_if that
\* copies the predicate (find_if on a copy, then the loop on the original)
\* restarts the accumulation after the first value-less element.
EraseIf(stack, pred_copied) ==
    LET nulls == {i \in DOMAIN stack : stack[i][2] = NoValue}
        f == IF nulls = {} THEN Len(stack) ELSE Min(nulls)
        acc == IF pred_copied
               THEN Accumulate(SubSeq(stack, 1, f), 1, <<>>)
                    \o Accumulate(stack, f + 1, <<>>)
               ELSE Accumulate(stack, 1, <<>>)
    IN  SelectSeq(acc, LAMBDA e : e[2] # NoValue)

\* SSSTree::operator()(key, start): [thrown, prefixes]; prefixes is the
\* sequence of <<matched key, value>>
TreeLookup(tree, key, start, oob, pred_copied) ==
    IF start >= Len(key) THEN [thrown |-> TRUE, prefixes |-> <<>>]
    ELSE LET c == FirstChild(tree, key[start + 1])
         IN  IF c = 0 THEN [thrown |-> FALSE, prefixes |-> <<>>]
             ELSE LET r == NodeLookup(tree[c], key, start, <<>>, oob)
                      kept == EraseIf(r.stack, pred_copied)
                  IN  [thrown |-> r.thrown,
                       prefixes |-> [i \in DOMAIN kept |-> <<kept[i][1], kept[i][2][1]>>]]

\* the lookup cache of the universal variant: the singletons of
\* inverse_alphabet (key [id], value as stored in inverse_alphabet), then the
\* forward mapper, both in key order
RECURSIVE InsertAll(_, _, _)
InsertAll(tree, keys, valueOf) ==
    IF Len(keys) = 0 THEN tree
    ELSE InsertAll(TreeInsert(tree, Head(keys), valueOf[Head(keys)]), Tail(keys), valueOf)

BuildLookup(tree, inv_alphabet, fwd) ==
    LET ids == IntSorted(DOMAIN inv_alphabet)
        singles == [i \in DOMAIN ids |-> <<ids[i]>>]
        single_value == [k \in Range(singles) |-> inv_alphabet[k[1]]]
    IN  InsertAll(InsertAll(tree, singles, single_value), LexSorted(DOMAIN fwd), fwd)

\* ------------------------------------- EncodingCandidate, heapq, TopElements
\* a candidate is [weight, sequence, counter]; counter: id -> occurrences
CandLess(lhs, rhs) ==
    IF lhs.weight = rhs.weight
    THEN Len(lhs.sequence) > Len(rhs.sequence)
    ELSE lhs.weight < rhs.weight

CandGreater(lhs, rhs) ==
    IF lhs.weight = rhs.weight
    THEN Len(lhs.sequence) < Len(rhs.sequence)
    ELSE lhs.weight > rhs.weight

\* the 1-based parent of the 1-based heap position pos ((pos0 - 1) >> 1)
ParentPos(pos) == ((pos - 2) \div 2) + 1

\* heapq::siftdown(start_pos, pos) for the element new_element held at pos
RECURSIVE SiftDownLoop(_, _, _, _)
SiftDownLoop(data, start_pos, pos, new_element) ==
    IF pos > start_pos /\ CandLess(new_element, data[ParentPos(pos)])
    THEN SiftDownLoop([data EXCEPT ![pos] = data[ParentPos(pos)]],
                      start_pos, ParentPos(pos), new_element)
    ELSE [data EXCEPT ![pos] = new_element]

siftdown(data, start_pos, pos) == SiftDownLoop(data, start_pos, pos, data[pos])

\* heapq::siftup(pos): bubble the smaller child up to a leaf, then sift the
\* element down from there
RECURSIVE SiftUpLoop(_, _, _, _)
SiftUpLoop(data, start_pos, pos, new_element) ==
    LET child_pos == 2 * pos
        right_pos == child_pos + 1
        c == IF right_pos <= Len(data) /\ ~CandLess(data[child_pos], data[right_pos])
             THEN right_pos ELSE child_pos
    IN  IF child_pos <= Len(data)
        THEN SiftUpLoop([data EXCEPT ![pos] = data[c]], start_pos, c, new_element)
        ELSE siftdown([data EXCEPT ![pos] = new_element], start_pos, pos)

siftup(data, pos) == SiftUpLoop(data, pos, pos, data[pos])

HeapPush(data, element) == siftdown(Append(data, element), 1, Len(data) + 1)

\* heapq::pop on a non-empty heap: [top, data]
HeapPop(data) ==
    LET bottom == data[Len(data)]
        rest == SubSeq(data, 1, Len(data) - 1)
    IN  IF Len(rest) > 0
        THEN [top |-> data[1], data |-> siftup([rest EXCEPT ![1] = bottom], 1)]
        ELSE [top |-> bottom, data |-> rest]

\* heapq::pushpop: the heap after the call
HeapPushPop(data, element) ==
    IF Len(data) > 0 /\ CandLess(data[1], element)
    THEN siftup([data EXCEPT ![1] = element], 1)
    ELSE data

\* a push that never evicts
TopPushUnbounded(data, n, element) == HeapPush(data, element)

\* TopElements::push(T&&): the element has been moved from when it is
\* compared with the top, so its sequence is empty in that comparison
TopPush(data, n, element) ==
    IF Len(data) < n THEN HeapPush(data, element)
    ELSE IF CandGreater([element EXCEPT !.sequence = <<>>], data[1])
         THEN HeapPushPop(data, element)
         ELSE data

\* a sorted() that fills the result from the front
RECURSIVE TopSortedFront(_)
TopSortedFront(data) ==
    IF Len(data) = 0 THEN <<>>
    ELSE <<HeapPop(data).top>> \o TopSortedFront(HeapPop(data).data)

\* TopElements::sorted: pop everything, filling the result from the back
RECURSIVE TopSorted(_)
TopSorted(data) ==
    IF Len(data) = 0 THEN <<>>
    ELSE LET p == HeapPop(data) IN Append(TopSorted(p.data), p.top)

\* weight of a sequence from the counts of its ids: sum over the counted ids
\* that have a weight of (1 + ln count) * weight, at scale Scale * Scale
SequenceWeight(weights, counter) ==
    LET ids == IntSorted(DOMAIN counter)
    IN  SumSeq([i \in DOMAIN ids |->
                  IF ids[i] \in DOMAIN weights
                  THEN (Scale + LnS(counter[ids[i]])) * weights[ids[i]]
                  ELSE 0])

\* Counter(doc): id -> number of occurrences
CounterOf(doc) ==
    [t \in Range(doc) |-> Cardinality({i \in DOMAIN doc : doc[i] = t})]

\* ------------------------------------------------ documents <-> ids
\* _doc_to_vec: alphabet.at(symbol) throws for a symbol not in the alphabet
DocKnown(alph, doc) == \A i \in DOMAIN doc : doc[i] \in DOMAIN alph

doc_to_vec(alph, doc) == [i \in DOMAIN doc |-> alph[doc[i]]]

\* _vec_to_doc: inverse_alphabet.at(token) throws for an unknown id
VecKnown(inv, vec) == \A i \in DOMAIN vec : vec[i] \in DOMAIN inv

vec_to_doc(inv, vec) == [i \in DOMAIN vec |-> inv[vec[i]]]

\* outcomes of a call
Ok(value) == [outcome |-> "ok", value |-> value]

Fail(kind) == [outcome |-> kind, value |-> <<>>]

\* ------------------------------------------------- Ubpe::encode
\* the initial stack of <<start, prefixes>> along the longest matches
RECURSIVE InitialStacks(_, _, _, _, _, _)
InitialStacks(tree, vec, start, stacks, oob, pred_copied) ==
    IF start >= Len(vec) THEN [thrown |-> FALSE, stacks |-> stacks]
    ELSE LET r == TreeLookup(tree, vec, start, oob, pred_copied)
         IN  IF r.thrown \/ Len(r.prefixes) = 0
             THEN [thrown |-> TRUE, stacks |-> stacks]
             ELSE InitialStacks(tree, vec,
                      start + Len(r.prefixes[Len(r.prefixes)][1]),
                      Append(stacks, <<start, r.prefixes>>), oob, pred_copied)

\* one popped <<start, stack>>: walk the candidates k.. of `stack`, filling
\* `next` and pushing the lookups of the starts not yet in `nodes`
RECURSIVE WalkStack(_, _, _, _, _, _, _, _, _, _)
WalkStack(tree, vec, nodes, start, stack, k, next, stacks, oob, pred_copied) ==
    IF k > Len(stack) THEN [thrown |-> FALSE, next |-> next, stacks |-> stacks]
    ELSE LET key == stack[k][1]
             next_key_start == start + Len(key)
             next1 == (key :> <<stack[k][2], next_key_start>>) @@ next
         IN  IF next_key_start # Len(vec) /\ next_key_start \notin DOMAIN nodes
             THEN LET r == TreeLookup(tree, vec, next_key_start, oob, pred_copied)
                  IN  IF r.thrown
                      THEN [thrown |-> TRUE, next |-> next1, stacks |-> stacks]
                      ELSE WalkStack(tree, vec, nodes, start, stack, k + 1, next1,
                                     Append(stacks, <<next_key_start, r.prefixes>>),
                                     oob, pred_copied)
             ELSE WalkStack(tree, vec, nodes, start, stack, k + 1, next1, stacks,
                            oob, pred_copied)

\* drain the stack of stacks into nodes: start -> (key -> <<value, next start>>)
RECURSIVE BuildNodes(_, _, _, _, _, _)
BuildNodes(tree, vec, stacks, nodes, oob, pred_copied) ==
    IF Len(stacks) = 0 THEN [thrown |-> FALSE, nodes |-> nodes]
    ELSE LET top == stacks[Len(stacks)]
             w == WalkStack(tree, vec, nodes, top[1], top[2], 1, EmptyMap,
                            SubSeq(stacks, 1, Len(stacks) - 1), oob, pred_copied)
         IN  IF w.thrown THEN [thrown |-> TRUE, nodes |-> nodes]
             ELSE BuildNodes(tree, vec, w.stacks, (top[1] :> w.next) @@ nodes,
                             oob, pred_copied)

\* the candidates tried at `start`, in the order the loops meet them: the
\* edges of nodes[start] in key order, each with the tails of its end
CandidatesAt(nodes, tails, weights, start) ==
    LET edges == IF start \in DOMAIN nodes THEN nodes[start] ELSE EmptyMap
        keys == LexSorted(DOMAIN edges)
        tailsAt(pos) == IF pos \in DOMAIN tails THEN tails[pos] ELSE <<>>
        extend(token, tail) ==
            LET c == (token :> (IF token \in DOMAIN tail.counter
                                THEN tail.counter[token] + 1 ELSE 1)) @@ tail.counter
            IN  [weight |-> SequenceWeight(weights, c),
                 sequence |-> <<token>> \o tail.sequence,
                 counter |-> c]
        ofEdge(k) == LET e == edges[keys[k]]
                     IN  [t \in DOMAIN tailsAt(e[2]) |-> extend(e[1], tailsAt(e[2])[t])]
        flat[k \in 0..Len(keys)] == IF k = 0 THEN <<>> ELSE flat[k - 1] \o ofEdge(k)
    IN  flat[Len(keys)]

RECURSIVE PushAll(_, _, _)
PushAll(data, n, cands) ==
    IF Len(cands) = 0 THEN data
    ELSE PushAll(TopPush(data, n, Head(cands)), n, Tail(cands))

\* tails: start -> up to top_n candidates, from the end of the document
RECURSIVE BuildTails(_, _, _, _, _)
BuildTails(nodes, weights, top_n, start, tails) ==
    IF start < 0 THEN tails
    ELSE BuildTails(nodes, weights, top_n, start - 1,
             (start :> TopSorted(PushAll(<<>>, top_n,
                           CandidatesAt(nodes, tails, weights, start)))) @@ tails)

UniversalFitted(T) ==
    /\ Len(T.lookup) # 0
    /\ DOMAIN T.fwd # {} /\ DOMAIN T.bwd # {} /\ DOMAIN T.weights # {}

\* the candidates of tails[0] without their counters
EncodeResult(tail) == Ok([i \in DOMAIN tail |-> <<tail[i].sequence, tail[i].weight>>])

\* b = [thrown, nodes]: the tails from the end of the document, seeded with
\* the empty tail of weight 0 after its end
EncodeTails(T, vec, top_n, b) ==
    IF b.thrown THEN Fail("OutOfRange")
    ELSE EncodeResult(
             BuildTails(b.nodes, T.weights, top_n, Len(vec) - 1,
                        (Len(vec) :> <<[weight |-> 0, sequence |-> <<>>,
                                        counter |-> EmptyMap]>>))[0])

\* s = [thrown, stacks]: the nodes drained from the initial stacks
EncodeNodes(T, vec, top_n, oob, copied, s) ==
    IF s.thrown THEN Fail("OutOfRange")
    ELSE EncodeTails(T, vec, top_n,
                     BuildNodes(T.lookup, vec, s.stacks, EmptyMap, oob, copied))

EncodeVec(T, vec, top_n, oob, copied) ==
    EncodeNodes(T, vec, top_n, oob, copied,
                InitialStacks(T.lookup, vec, 0, <<>>, oob, copied))

UbpeEncode(T, doc, top_n, oob, copied) ==
    IF ~UniversalFitted(T) THEN Fail("NotFitted")
    ELSE IF Len(doc) = 0 THEN Ok(<<>>)
    ELSE IF ~DocKnown(T.alphabet, doc) THEN Fail("UnknownSymbol")
    ELSE EncodeVec(T, doc_to_vec(T.alphabet, doc), top_n, oob, copied)

\* ------------------------------------------------- Ubpe::decode
MapsFitted(T) == DOMAIN T.fwd # {} /\ DOMAIN T.bwd # {} /\ DOMAIN T.weights # {}

RECURSIVE ExpandOnce(_, _)
ExpandOnce(bwd, tokens) ==
    IF Len(tokens) = 0 THEN <<>>
    ELSE (IF Head(tokens) \in DOMAIN bwd THEN bwd[Head(tokens)] ELSE <<Head(tokens)>>)
         \o ExpandOnce(bwd, Tail(tokens))

UbpeDecode(T, tokens) ==
    IF ~MapsFitted(T) THEN Fail("NotFitted")
    ELSE IF Len(tokens) = 0 THEN Ok(<<>>)
    ELSE LET document == ExpandOnce(T.bwd, tokens)
         IN  IF VecKnown(T.inverse_alphabet, document)
             THEN Ok(vec_to_doc(T.inverse_alphabet, document))
             ELSE Fail("UnknownToken")

\* --------------------------------------------- UbpeClassic::encode
ClassicFitted(T) == Len(T.pairs) # 0 /\ MapsFitted(T)

\* the pairs after pairs[i] that join the replacement: stop at the first one
\* that shares an id with the set, take those present in the document
RECURSIVE ExtendTokens(_, _, _, _, _)
ExtendTokens(pairs, present, j, tokens, current_set) ==
    IF j > Len(pairs) THEN tokens
    ELSE IF pairs[j][1] \in current_set \/ pairs[j][2] \in current_set THEN tokens
    ELSE IF pairs[j] \in present
         THEN ExtendTokens(pairs, present, j + 1, Append(tokens, pairs[j]),
                           current_set \cup Range(pairs[j]))
         ELSE ExtendTokens(pairs, present, j + 1, tokens, current_set)

\* sub built through std::inserter: the first token with a given first id
\* stays
RECURSIVE SubOf(_, _, _)
SubOf(tokens, fwd, sub) ==
    IF Len(tokens) = 0 THEN sub
    ELSE LET t == Head(tokens)
         IN  SubOf(Tail(tokens), fwd,
                   IF t[1] \in DOMAIN sub THEN sub
                   ELSE (t[1] :> <<t[2], fwd[t]>>) @@ sub)

\* a loop left after its first pass
ClassicOnePass(T, vec) ==
    LET present == Range(DocPairs(vec))
        hits == {i \in DOMAIN T.pairs : T.pairs[i] \in present}
    IN  IF hits = {} THEN [thrown |-> FALSE, vec |-> vec]
        ELSE LET i == Min(hits)
                 tokens == ExtendTokens(T.pairs, present, i + 1, <<T.pairs[i]>>,
                                        Range(T.pairs[i]))
             IN  [thrown |-> FALSE,
                  vec |-> replace_token_pairs(vec, SubOf(tokens, T.fwd, EmptyMap))]

\* the while (true) loop: [thrown, vec]
RECURSIVE ClassicLoop(_, _)
ClassicLoop(T, vec) ==
    LET present == Range(DocPairs(vec))
        hits == {i \in DOMAIN T.pairs : T.pairs[i] \in present}
    IN  IF hits = {} THEN [thrown |-> FALSE, vec |-> vec]
        ELSE LET i == Min(hits)
                 tokens == ExtendTokens(T.pairs, present, i + 1, <<T.pairs[i]>>,
                                        Range(T.pairs[i]))
             IN  IF \E k \in DOMAIN tokens : tokens[k] \notin DOMAIN T.fwd
                 THEN [thrown |-> TRUE, vec |-> vec]
                 ELSE ClassicLoop(T, replace_token_pairs(vec,
                                         SubOf(tokens, T.fwd, EmptyMap)))

ClassicEncode(T, doc) ==
    IF ~ClassicFitted(T) THEN Fail("NotFitted")
    ELSE IF Len(doc) = 0 THEN Ok(<<>>)
    ELSE IF ~DocKnown(T.alphabet, doc) THEN Fail("UnknownSymbol")
    ELSE LET r == ClassicLoop(T, doc_to_vec(T.alphabet, doc))
         IN  IF r.thrown THEN Fail("OutOfRange")
             ELSE Ok(<<<<r.vec, SequenceWeight(T.weights, CounterOf(r.vec))>>>>)

\* --------------------------------------------- UbpeClassic::decode
\* the expansion of one id: the entry of the backward mapper is replaced by
\* its first two elements until the id at `di` has no entry.  `fuel` bounds
\* the expansions; FALSE is returned in `done` when it runs out.
RECURSIVE ExpandAll(_, _, _, _)
ExpandAll(bwd, document, di, fuel) ==
    IF di > Len(document) THEN [done |-> TRUE, document |-> document]
    ELSE IF document[di] \in DOMAIN bwd
         THEN IF fuel = 0 \/ Len(bwd[document[di]]) < 2
              THEN [done |-> FALSE, document |-> document]
              ELSE LET expander == bwd[document[di]]
                   IN  ExpandAll(bwd,
                           SubSeq(document, 1, di - 1)
                               \o <<expander[1], expander[2]>>
                               \o SubSeq(document, di + 1, Len(document)),
                           di, fuel - 1)
         ELSE ExpandAll(bwd, document, di + 1, fuel)

ClassicDecode(T, tokens) ==
    IF ~MapsFitted(T) THEN Fail("NotFitted")
    ELSE IF Len(tokens) = 0 THEN Ok(<<>>)
    ELSE LET r == ExpandAll(T.bwd, tokens, 1, MaxExpansions)
         IN  IF ~r.done THEN Fail("Undefined")
             ELSE IF VecKnown(T.inverse_alphabet, r.document)
                  THEN Ok(vec_to_doc(T.inverse_alphabet, r.document))
                  ELSE Fail("UnknownToken")

\* ----------------------------------- the python extension's revision
\* src/ubpe_cython: Ubpe::encode asserts that the lookup IS empty and that
\* one of the mappers IS empty; with an empty trie the first lookup returns
\* no prefix and stack.back() is taken of an empty vector
CythonEncode(T, doc) ==
    IF Len(T.lookup) # 0 THEN Fail("NotFitted")
    ELSE IF MapsFitted(T) THEN Fail("NotFitted")
    ELSE IF Len(doc) = 0 THEN Ok(<<>>)
    ELSE Fail("Undefined")

\* src/ubpe_cython: Ubpe::decode, same inverted assertion, one level of
\* expansion, base ids returned as they are
CythonDecode(T, tokens) ==
    IF MapsFitted(T) THEN Fail("NotFitted")
    ELSE IF Len(tokens) = 0 THEN Ok(<<>>)
    ELSE Ok(ExpandOnce(T.bwd, tokens))

\* ------------------------------------------------------ constructors
IdentityAlphabet(asize) == [i \in 0..(asize - 1) |-> i]

\* the inverse built through std::inserter: of two symbols with one id the
\* lower symbol stays
InverseOf(alph) ==
    [t \in {alph[x] : x \in DOMAIN alph} |-> Min({x \in DOMAIN alph : alph[x] = t})]

Tokenizer(var, ntok, asize, alph, inv, fwd, bwd, weights, prs, look) ==
    [variant |-> var, n_tokens |-> ntok, alphabet_size |-> asize,
     alphabet |-> alph, inverse_alphabet |-> inv,
     fwd |-> fwd, bwd |-> bwd, weights |-> weights,
     pairs |-> prs, lookup |-> look]

\* UbpeBase(n_tokens, alphabet_size)
NewTokenizer(var, ntok, asize) ==
    Tokenizer(var, ntok, asize, IdentityAlphabet(asize), IdentityAlphabet(asize),
              EmptyMap, EmptyMap, EmptyMap, <<>>, <<>>)

\* UbpeBase(n_tokens, alphabet_size, alphabet); the assertion on the size of
\* the map is AlphabetSizeOk
AlphabetSizeOk(asize, alph) == asize = Cardinality(DOMAIN alph)

NewTokenizerWithAlphabet(var, ntok, asize, alph) ==
    Tokenizer(var, ntok, asize, alph, InverseOf(alph),
              EmptyMap, EmptyMap, EmptyMap, <<>>, <<>>)

\* the constructors from a state: the assertions are StateSizesOk, then the
\* pairs (classic) or the lookup trie (universal) are cached
StateSizesOk(st) ==
    /\ st.alphabet_size = Cardinality(DOMAIN st.alphabet)
    /\ Cardinality(DOMAIN st.alphabet) = Cardinality(DOMAIN st.inverse_alphabet)

NewTokenizerFromState(var, st) ==
    Tokenizer(var, st.n_tokens, st.alphabet_size, st.alphabet, st.inverse_alphabet,
              st.fwd, st.bwd, st.weights,
              IF var = "classic" THEN CachePairs(<<>>, st.bwd) ELSE <<>>,
              IF var = "universal"
              THEN BuildLookup(<<>>, st.inverse_alphabet, st.fwd) ELSE <<>>)

\* src/ubpe_cython UbpeBase(n_tokens, alphabet_size): the generator returns
\* {i, i} without advancing i, so every insertion after the first is dropped
CythonNewTokenizer(ntok, asize) ==
    Tokenizer("universal", ntok, asize, IdentityAlphabet(1), IdentityAlphabet(1),
              EmptyMap, EmptyMap, EmptyMap, <<>>, <<>>)

\* the state a tokenizer exports
ExportedState(T) ==
    [n_tokens |-> T.n_tokens, alphabet_size |-> T.alphabet_size,
     alphabet |-> T.alphabet, inverse_alphabet |-> T.inverse_alphabet,
     fwd |-> T.fwd, bwd |-> T.bwd, weights |-> T.weights]

\* --------------------------------------------------------------- fit
\* the while loop of fit, one definition per step of a round; the value is
\* [bwd, weights, work, max_token, log] at the exit of the loop, log being
\* the locals of every round that merged, in order
RECURSIVE FitLoop(_, _, _, _, _, _, _, _, _)

FitExit(work, max_tok, bwd, weights, log) ==
    [bwd |-> bwd, weights |-> weights, work |-> work, max_token |-> max_tok,
     log |-> log]

\* the locals of a round: the counter, the candidates, the accepted batch,
\* max_token at the start of the round and _corpus at its end
RoundLocals(pairs_counter, mc, token_pairs, max_tok, work) ==
    [pairs_counter |-> pairs_counter, mc |-> mc, token_pairs |-> token_pairs,
     max_token |-> max_tok, work |-> work]

\* new ids, weights and backward sequences of the batch; the corpus rewritten
FitMerge(var, ntok, corpus_size, n_cand, work, max_tok, bwd, weights, log, pairs_counter, mc, token_pairs) ==
    LET new_ids == (max_tok + 1)..(max_tok + Len(token_pairs))
        sub == [f \in {token_pairs[k][1][1] : k \in DOMAIN token_pairs} |->
                  LET k == Max({j \in DOMAIN token_pairs : token_pairs[j][1][1] = f})
                  IN  <<token_pairs[k][1][2], max_tok + k>>]
        rewritten == [d \in DOMAIN work |-> replace_token_pairs(work[d], sub)]
    IN  FitLoop(var, ntok, corpus_size, n_cand,
                rewritten,
                max_tok + Len(token_pairs),
                [t \in new_ids |->
                    IF var = "classic" THEN ClassicTokensMap(token_pairs[t - max_tok][1])
                    ELSE UniversalTokensMap(bwd, token_pairs[t - max_tok][1])] @@ bwd,
                [t \in new_ids |->
                    TokenWeight(corpus_size,
                                pairs_counter[token_pairs[t - max_tok][1]][1])] @@ weights,
                Append(log, RoundLocals(pairs_counter, mc, token_pairs, max_tok,
                                        rewritten)))

\* the candidates of the round; the loop is left when there is none
FitCandidates(var, ntok, corpus_size, n_cand, work, max_tok, bwd, weights, log, pairs_counter, mc) ==
    IF Len(mc) = 0 THEN FitExit(work, max_tok, bwd, weights, log)
    ELSE FitMerge(var, ntok, corpus_size, n_cand, work, max_tok, bwd, weights, log,
                  pairs_counter, mc, SelectBatch(mc, pairs_counter))

FitRound(var, ntok, corpus_size, n_cand, work, max_tok, bwd, weights, log, pairs_counter) ==
    FitCandidates(var, ntok, corpus_size, n_cand, work, max_tok, bwd, weights, log,
                  pairs_counter, most_common(pairs_counter, n_cand))

\* a loop that also runs when max_token has reached n_tokens
FitLoopOneMore(var, ntok, corpus_size, n_cand, work, max_tok, bwd, weights, log) ==
    IF max_tok > ntok THEN FitExit(work, max_tok, bwd, weights, log)
    ELSE FitRound(var, ntok, corpus_size, n_cand, work, max_tok, bwd, weights, log,
                  PairCounter(work))

FitLoop(var, ntok, corpus_size, n_cand, work, max_tok, bwd, weights, log) ==
    IF max_tok >= ntok THEN FitExit(work, max_tok, bwd, weights, log)
    ELSE FitRound(var, ntok, corpus_size, n_cand, work, max_tok, bwd, weights, log,
                  PairCounter(work))

\* the end of fit once the maps m = [bwd, weights] are final: forward mapper,
\* then the pairs (classic) or the lookup trie (universal)
FitCaches(T, m, fwd) ==
    [T EXCEPT !.bwd = m.bwd, !.weights = m.weights, !.fwd = fwd,
              !.pairs = IF T.variant = "classic"
                        THEN CachePairs(T.pairs, m.bwd) ELSE T.pairs,
              !.lookup = IF T.variant = "universal"
                         THEN BuildLookup(T.lookup, T.inverse_alphabet, fwd)
                         ELSE T.lookup]

FitMaps(T, m) == FitCaches(T, m, InsertForward(T.fwd, m.bwd))

\* what follows the loop, l being its value: the rearrangement asserts that
\* something was learned
FitDone(T, l, m) ==
    [outcome |-> "ok", T |-> FitMaps(T, m), rounds |-> l.log,
     learned |-> [bwd |-> l.bwd, weights |-> l.weights],
     transformer |-> m.transformer]

FitFinish(T, l, rearrange) ==
    IF rearrange /\ (DOMAIN l.bwd = {} \/ DOMAIN l.weights = {})
    THEN [outcome |-> "NotFitted",
          T |-> [T EXCEPT !.bwd = l.bwd, !.weights = l.weights],
          rounds |-> l.log,
          learned |-> [bwd |-> l.bwd, weights |-> l.weights],
          transformer |-> EmptyMap]
    ELSE FitDone(T, l, IF rearrange
                       THEN rearrange_tokens_by_weight(T.n_tokens, T.alphabet_size,
                                                       l.bwd, l.weights)
                       ELSE [bwd |-> l.bwd, weights |-> l.weights,
                             transformer |-> EmptyMap])

\* a fit that ended before its loop
FitRefused(T, kind) ==
    [outcome |-> kind, T |-> T, rounds |-> <<>>,
     learned |-> [bwd |-> T.bwd, weights |-> T.weights], transformer |-> EmptyMap]

\* fit(corpus, n_candidates, rearrange_tokens) on the tokenizer T:
\* [outcome, T] and what the call went through: the rounds of its loop, the
\* maps at the exit of the loop, the transformer of the rearrangement.
\* "Precondition" and "NotFitted" are failed assertions, "UnknownSymbol" is
\* the exception of _doc_to_vec.
\* For an empty document PairCounter::update compares i with size() - 1 in
\* size_t, which wraps, and reads doc[i] past the end (_replace_token_pairs
\* then writes vec[0] and sweeps the same way): the accesses either fault,
\* which ends the call ("Undefined"), or go unnoticed, and `wrapped` says
\* which.
Fit(T, corp, n_cand, rearrange, wrapped) ==
    IF n_cand = 0 THEN FitRefused(T, "Precondition")
    ELSE IF \E d \in DOMAIN corp : ~DocKnown(T.alphabet, corp[d])
    THEN FitRefused(T, "UnknownSymbol")
    ELSE IF /\ T.alphabet_size - 1 < T.n_tokens
            /\ \E d \in DOMAIN corp : Len(corp[d]) = 0
            /\ wrapped = "fault"
    THEN FitRefused(T, "Undefined")
    ELSE FitFinish(T,
             FitLoop(T.variant, T.n_tokens, Len(corp), n_cand,
                     [d \in DOMAIN corp |-> doc_to_vec(T.alphabet, corp[d])],
                     T.alphabet_size - 1, T.bwd, T.weights, <<>>),
             rearrange)

\* ------------------------------- the python extension's revision: fit
\* `a < b` once both sides are converted to size_t: a negative int is above
\* every non-negative one
UnsignedLess(a, b) == IF (a < 0) = (b < 0) THEN a < b ELSE b < 0

\* src/ubpe_cython utils.hpp _replace_token_pairs: left and right are ints
\* that start at -1 and the loop condition compares right with
\* vec.size() - 2 in size_t
RECURSIVE CythonReplaceFrom(_, _, _, _)
CythonReplaceFrom(vec, sub, left, right) ==
    IF ~UnsignedLess(right, Len(vec) - 2) THEN [vec |-> vec, left |-> left]
    ELSE IF vec[right + 2] \notin DOMAIN sub
         THEN CythonReplaceFrom([vec EXCEPT ![left + 2] = vec[right + 2]], sub,
                                left + 1, right + 1)
         ELSE IF vec[right + 3] = sub[vec[right + 2]][1]
              THEN CythonReplaceFrom([vec EXCEPT ![left + 2] = sub[vec[right + 2]][2]],
                                     sub, left + 1, right + 2)
              ELSE CythonReplaceFrom([vec EXCEPT ![left + 2] = vec[right + 2]], sub,
                                     left + 1, right + 1)

\* vec.resize(left): a negative left converts to a size above max_size() and
\* resize throws std::length_error
CythonResize(e) ==
    IF e.left < 0 THEN [thrown |-> TRUE, vec |-> e.vec]
    ELSE [thrown |-> FALSE, vec |-> SubSeq(e.vec, 1, e.left)]

cython_replace_token_pairs(vec, sub) == CythonResize(CythonReplaceFrom(vec, sub, -1, -1))

\* std::log((1 + corpus.size()) / (1 + doc_freq)): both operands are size_t,
\* the quotient is truncated before the logarithm is taken
CythonTokenWeight(corpus_size, doc_freq) == LnS((1 + corpus_size) \div (1 + doc_freq))

\* the pairs of S from the greatest total down, ties from the greatest pair
RECURSIVE TotalDescending(_, _)
TotalDescending(counter, S) ==
    IF S = {} THEN <<>>
    ELSE LET m == CHOOSE x \in S : \A y \in S \ {x} :
                      LexLess(<<counter[y][2], y[1], y[2]>>, <<counter[x][2], x[1], x[2]>>)
         IN  <<m>> \o TotalDescending(counter, S \ {m})

\* PairCounter::most_common of the extension's revision: the first n pairs in
\* descending total, ties by pair value descending
CythonMostCommon(counter, n) ==
    LET all == TotalDescending(counter, DOMAIN counter)
    IN  [i \in 1..(IF n < Len(all) THEN n ELSE Len(all)) |->
            <<all[i], counter[all[i]][2]>>]

\* the value of the extension's fit: m holds the maps, log the rounds
CythonFitResult(T, kind, m, log) ==
    [outcome |-> kind,
     T |-> [T EXCEPT !.bwd = m.bwd, !.weights = m.weights, !.fwd = m.fwd,
                     !.lookup = IF kind = "ok"
                                THEN BuildLookup(T.lookup, T.inverse_alphabet, m.fwd)
                                ELSE T.lookup],
     rounds |-> log, learned |-> [bwd |-> m.bwd, weights |-> m.weights],
     transformer |-> EmptyMap]

\* after the loop: _rearrange_tokens_by_weight of src/ubpe_cython asserts
\* that one of the three maps IS empty; with all three empty it relabels
\* nothing.  Then the lookup trie is built.
CythonFitFinish(T, m, log, rearrange) ==
    IF rearrange /\ DOMAIN m.fwd # {} /\ DOMAIN m.bwd # {} /\ DOMAIN m.weights # {}
    THEN CythonFitResult(T, "Assertion", m, log)
    ELSE CythonFitResult(T, "ok", m, log)

RECURSIVE CythonFitLoop(_, _, _, _, _, _, _, _)

\* the maps of the batch, then the corpus is rewritten document by document;
\* the first resize that throws leaves fit
CythonFitMerge(T, corpus_size, n_cand, rearrange, work, max_tok, m, log, pairs_counter, mc, token_pairs) ==
    LET new_ids == (max_tok + 1)..(max_tok + Len(token_pairs))
        sub == [f \in {token_pairs[k][1][1] : k \in DOMAIN token_pairs} |->
                  LET k == Max({j \in DOMAIN token_pairs : token_pairs[j][1][1] = f})
                  IN  <<token_pairs[k][1][2], max_tok + k>>]
        bwd == [t \in new_ids |-> UniversalTokensMap(m.bwd, token_pairs[t - max_tok][1])]
                   @@ m.bwd
        merged == [bwd |-> bwd,
                   weights |-> [t \in new_ids |->
                                   CythonTokenWeight(corpus_size,
                                       pairs_counter[token_pairs[t - max_tok][1]][1])]
                               @@ m.weights,
                   fwd |-> [k \in {bwd[t] : t \in new_ids} |->
                               Max({t \in new_ids : bwd[t] = k})] @@ m.fwd]
        replaced == [d \in DOMAIN work |-> cython_replace_token_pairs(work[d], sub)]
        entry == RoundLocals(pairs_counter, mc, token_pairs, max_tok,
                             [d \in DOMAIN work |-> replaced[d].vec])
    IN  IF \E d \in DOMAIN work : replaced[d].thrown
        THEN CythonFitResult(T, "LengthError", merged, Append(log, entry))
        ELSE CythonFitLoop(T, corpus_size, n_cand, rearrange,
                           [d \in DOMAIN work |-> replaced[d].vec],
                           max_tok + Len(token_pairs), merged, Append(log, entry))

\* mc[0] is read whether or not there is a candidate: with none the read is
\* past the end of an empty vector
CythonFitCandidates(T, corpus_size, n_cand, rearrange, work, max_tok, m, log, pairs_counter, mc) ==
    IF Len(mc) = 0 THEN CythonFitResult(T, "Undefined", m, log)
    ELSE CythonFitMerge(T, corpus_size, n_cand, rearrange, work, max_tok, m, log,
                        pairs_counter, mc, SelectBatch(mc, pairs_counter))

CythonFitRound(T, corpus_size, n_cand, rearrange, work, max_tok, m, log, pairs_counter) ==
    CythonFitCandidates(T, corpus_size, n_cand, rearrange, work, max_tok, m, log,
                        pairs_counter, CythonMostCommon(pairs_counter, n_cand))

CythonFitLoop(T, corpus_size, n_cand, rearrange, work, max_tok, m, log) ==
    IF max_tok >= T.n_tokens THEN CythonFitFinish(T, m, log, rearrange)
    ELSE CythonFitRound(T, corpus_size, n_cand, rearrange, work, max_tok, m, log,
                        PairCounter(work))

\* src/ubpe_cython Ubpe::fit(corpus, n_candidates, rearrange_tokens): the
\* corpus is one of ids; `(n_candidates > 0) || "..."` is always true
CythonFit(T, corp, n_cand, rearrange) ==
    CythonFitLoop(T, Len(corp), n_cand, rearrange, corp, T.alphabet_size - 1,
                  [bwd |-> T.bwd, weights |-> T.weights, fwd |-> T.fwd], <<>>)

\* ------------------------------------------------------ SplitPipeline
\* The documents are vectors of symbols (DocType = std::vector), for which
\* the regex mode is compiled out: split_part_by_regex returns {part}.
\* known_words given as a vector: each word is emplaced with max_token++,
\* so a word gets alphabet.size() plus its first position in the vector
KnownWordsOf(words, asize) ==
    [w \in Range(words) |-> asize + Min({i \in DOMAIN words : words[i] = w}) - 1]

\* break_tokens and stop_tokens keep the tokens that are in the alphabet
TokensOf(tokens, alph) == tokens \cap DOMAIN alph

\* the constructor: the trie is filled from the known_words map in key order
SplitPipeline(alph, words, break_tokens, stop_tokens) ==
    LET known_words == KnownWordsOf(words, Cardinality(DOMAIN alph))
    IN  [alphabet |-> alph,
         known_words |-> known_words,
         kw_ssstree |-> InsertAll(<<>>, LexSorted(DOMAIN known_words), known_words),
         break_tokens |-> TokensOf(break_tokens, alph),
         stop_tokens |-> TokensOf(stop_tokens, alph)]

\* split_part_by_tokens: `it` and part_begin are 0-based positions
RECURSIVE SplitByTokens(_, _, _, _, _, _)
SplitByTokens(part, tokens, leave_separators, it, part_begin, parts) ==
    IF it = Len(part)
    THEN IF part_begin # Len(part)
         THEN Append(parts, SubSeq(part, part_begin + 1, Len(part)))
         ELSE parts
    ELSE IF part[it + 1] \notin tokens
         THEN SplitByTokens(part, tokens, leave_separators, it + 1, part_begin, parts)
         ELSE LET before == IF it # part_begin
                            THEN Append(parts, SubSeq(part, part_begin + 1, it))
                            ELSE parts
                  with == IF leave_separators THEN Append(before, <<part[it + 1]>>)
                          ELSE before
              IN  SplitByTokens(part, tokens, leave_separators, it + 1, it + 1, with)

\* split_part_by_break_tokens / split_part_by_stop_tokens: an empty set is
\* std::nullopt
SplitPartByTokens(part, tokens, leave_separators) ==
    IF tokens # {} THEN SplitByTokens(part, tokens, leave_separators, 0, 0, <<>>)
    ELSE <<part>>

\* the parts of every part of `parts`, in order
RECURSIVE SplitEach(_, _, _)
SplitEach(parts, tokens, leave_separators) ==
    IF parts = <<>> THEN <<>>
    ELSE SplitPartByTokens(Head(parts), tokens, leave_separators)
             \o SplitEach(Tail(parts), tokens, leave_separators)

\* split_part: break tokens, regex (nothing for vectors), stop tokens
split_part(P, part, mode, leave_separators) ==
    LET broken == IF "BREAK_TOKENS" \in mode
                  THEN SplitEach(<<part>>, P.break_tokens, leave_separators)
                  ELSE <<part>>
    IN  IF "STOP_TOKENS" \in mode
        THEN SplitEach(broken, P.stop_tokens, leave_separators)
        ELSE broken

\* the parts of a stretch as vectors of ids
SplitToIds(P, part, mode, leave_separators) ==
    LET split == split_part(P, part, mode, leave_separators)
    IN  [i \in DOMAIN split |-> doc_to_vec(P.alphabet, split[i])]

\* the known-words loop of operator(): si and part_begin are 0-based; a
\* match advances si by its length and the loop header then increments it
RECURSIVE KnownWordsLoop(_, _, _, _, _, _, _, _, _)
KnownWordsLoop(P, doc, mode, leave_separators, si, part_begin, parts, oob, copied) ==
    IF si >= Len(doc)
    THEN [thrown |-> FALSE,
          parts |-> IF part_begin # Len(doc)
                    THEN parts \o SplitToIds(P, SubSeq(doc, part_begin + 1, Len(doc)),
                                             mode, leave_separators)
                    ELSE parts]
    ELSE LET kw_candidates == TreeLookup(P.kw_ssstree, doc, si, oob, copied)
         IN  IF kw_candidates.thrown THEN [thrown |-> TRUE, parts |-> parts]
             ELSE IF kw_candidates.prefixes = <<>>
                  THEN KnownWordsLoop(P, doc, mode, leave_separators, si + 1,
                                      part_begin, parts, oob, copied)
                  ELSE LET back == kw_candidates.prefixes[Len(kw_candidates.prefixes)]
                           before == IF si # part_begin
                                     THEN parts \o SplitToIds(P, SubSeq(doc, part_begin + 1, si),
                                                              mode, leave_separators)
                                     ELSE parts
                           with == IF leave_separators THEN Append(before, <<back[2]>>)
                                   ELSE before
                       IN  KnownWordsLoop(P, doc, mode, leave_separators,
                                          si + Len(back[1]) + 1, si + Len(back[1]),
                                          with, oob, copied)

\* SplitPipeline::operator()(doc, mode, leave_separators): [thrown, parts]
Split(P, doc, mode, leave_separators, oob, copied) ==
    IF "KNOWN_WORDS" \in mode /\ DOMAIN P.known_words # {}
    THEN KnownWordsLoop(P, doc, mode, leave_separators, 0, 0, <<>>, oob, copied)
    ELSE [thrown |-> FALSE, parts |-> SplitToIds(P, doc, mode, leave_separators)]

\* ================================================== the state machine
VARIABLES
    revision,               \* "cpp" (src/ubpe_cpp) or "cython" (src/ubpe_cython)
    pred_copied,            \* whether the build's erase_if copies its predicate
    pc,                     \* "start", "unfitted", "fitted", "from_state", "aborted"
    variant,                \* "classic" (UbpeClassic) or "universal" (Ubpe)
    n_tokens,
    alphabet_size,
    alphabet,
    inverse_alphabet,
    tokens_forward_mapper,
    tokens_backward_mapper,
    tokens_weights,
    pairs,
    lookup,
    corpus,                 \* the arguments of the fit that was called
    n_candidates,
    rearrange_tokens,
    result,                 \* the last call and what it gave
    restored,               \* <<>> or <<the tokenizer rebuilt from the state>>
    restored_result,        \* the last call on the rebuilt tokenizer
    rounds,                 \* the locals of each round of the fit that was called
    learned,                \* [bwd, weights] when its loop was left
    transformer,            \* old id -> new id of its rearrangement
    util                    \* a call of a helper: its arguments and what it gave

vars == <<revision, pred_copied, pc, variant, n_tokens, alphabet_size, alphabet,
          inverse_alphabet, tokens_forward_mapper, tokens_backward_mapper,
          tokens_weights, pairs, lookup, corpus, n_candidates, rearrange_tokens,
          result, restored, restored_result, rounds, learned, transformer,
          util>>

fit_args == <<corpus, n_candidates, rearrange_tokens>>

fit_trace == <<rounds, learned, transformer>>

\* the tokenizer object held in the variables
This ==
    Tokenizer(variant, n_tokens, alphabet_size, alphabet, inverse_alphabet,
              tokens_forward_mapper, tokens_backward_mapper, tokens_weights,
              pairs, lookup)

\* the variables after the tokenizer object became T
Becomes(T) ==
    /\ variant' = T.variant
    /\ n_tokens' = T.n_tokens
    /\ alphabet_size' = T.alphabet_size
    /\ alphabet' = T.alphabet
    /\ inverse_alphabet' = T.inverse_alphabet
    /\ tokens_forward_mapper' = T.fwd
    /\ tokens_backward_mapper' = T.bwd
    /\ tokens_weights' = T.weights
    /\ pairs' = T.pairs
    /\ lookup' = T.lookup

object == <<variant, n_tokens, alphabet_size, alphabet, inverse_alphabet,
            tokens_forward_mapper, tokens_backward_mapper, tokens_weights,
            pairs, lookup>>

\* ------------------------------------------------------------- inputs
\* an n_candidates above the number of distinct pairs of every corpus
ManyCandidates == 5

NCandidates == (0..MaxCandidates) \cup {ManyCandidates}

\* the value of a read that is not of an element of the vector
Garbage == 0 - 1

Variants == {"classic", "universal"}

\* vocabulary targets: one below every alphabet size, and the largest ones
NTokens == {1} \cup ((MaxTokens - 2)..MaxTokens)

Swapped == (0 :> 1) @@ (1 :> 0)

AlphabetMaps == {Swapped}

TrainingCorpora ==
    { <<<<0, 1>>>>,
      <<<<0>>>>,
      <<<<0, 1, 0, 1>>, <<0, 1, 0, 2>>>>,
      <<<<0, 0, 0, 0, 0, 1>>>>,
      <<<<1, 1, 0, 1>>, <<1, 1, 0, 0>>>>,
      <<<<0, 0>>, <<1, 1, 2, 0, 0>>>>,
      <<<<0, 0, 1, 1, 1, 0, 1, 0, 1>>>>,
      <<<<>>, <<1>>, <<0, 1>>>> }

Docs ==
    SeqsUpTo(0..1, MaxShortLen)
        \cup {<<0, 1, 0>>, <<0, 1, 0, 1>>, <<0, 1, 0, 2>>, <<0, 1, 0, 1, 1>>, <<2>>}

\* what the accesses made with a wrapped index can do
WrappedAccesses == {"fault", "unnoticed"}

TokenSeqs == {<<>>, <<0>>, <<2>>, <<3>>, <<3, 0>>, <<MaxTokens + 1>>}

\* states handed to the constructor from a state
NestedState ==
    [n_tokens |-> 4, alphabet_size |-> 2,
     alphabet |-> IdentityAlphabet(2), inverse_alphabet |-> IdentityAlphabet(2),
     fwd |-> (<<0, 1>> :> 2) @@ (<<2, 2>> :> 3),
     bwd |-> (2 :> <<0, 1>>) @@ (3 :> <<2, 2>>),
     weights |-> (2 :> LnS(2)) @@ (3 :> LnS(3))]

FlatState ==
    [n_tokens |-> 4, alphabet_size |-> 2,
     alphabet |-> IdentityAlphabet(2), inverse_alphabet |-> IdentityAlphabet(2),
     fwd |-> (<<0, 1>> :> 2) @@ (<<1, 1>> :> 3),
     bwd |-> (2 :> <<0, 1>>) @@ (3 :> <<1, 1>>),
     weights |-> (2 :> LnS(4)) @@ (3 :> LnS(3))]

States ==
    { NestedState, FlatState,
      [NestedState EXCEPT !.n_tokens = 1],
      [NestedState EXCEPT !.alphabet_size = 3],
      [FlatState EXCEPT !.inverse_alphabet = IdentityAlphabet(3)] }

\* ------------------------------------------------------------ results
Call(op, doc, tokens, top_n, oob, of, r) ==
    [op |-> op, doc |-> doc, tokens |-> tokens, top_n |-> top_n, oob |-> oob,
     of |-> of, outcome |-> r.outcome, value |-> r.value]

NoCall == Call("none", <<>>, <<>>, 0, Garbage, 0, Fail("none"))

\* encode and decode are const: a call leaves the object as it is, so the
\* calls are taken from the states in which none has been recorded yet
Idle == result.op \notin {"encode", "decode"}

Alive == pc \in {"unfitted", "fitted", "from_state"}

\* the values a read past the end of the document can give that matter to
\* the comparison with the first id of a child key; the classic encoder
\* makes no such read
OobValues ==
    IF variant = "universal" THEN (0..(alphabet_size - 1)) \cup {Garbage}
    ELSE {Garbage}

EncodeOf(T, doc, top_n, oob) ==
    IF T.variant = "classic" THEN ClassicEncode(T, doc)
    ELSE UbpeEncode(T, doc, top_n, oob, pred_copied)

DecodeOf(T, tokens) ==
    IF T.variant = "classic" THEN ClassicDecode(T, tokens)
    ELSE UbpeDecode(T, tokens)

\* ------------------------------------------------------------ actions
\* no helper is being called
NoHelper == [fn |-> "none"]

Init ==
    /\ revision = "cpp"
    /\ pred_copied \in BOOLEAN
    /\ pc = "start"
    /\ variant = "classic"
    /\ n_tokens = 0
    /\ alphabet_size = 0
    /\ alphabet = EmptyMap
    /\ inverse_alphabet = EmptyMap
    /\ tokens_forward_mapper = EmptyMap
    /\ tokens_backward_mapper = EmptyMap
    /\ tokens_weights = EmptyMap
    /\ pairs = <<>>
    /\ lookup = <<>>
    /\ corpus = <<>>
    /\ n_candidates = 0
    /\ rearrange_tokens = FALSE
    /\ result = NoCall
    /\ restored = <<>>
    /\ restored_result = NoCall
    /\ rounds = <<>>
    /\ learned = [bwd |-> EmptyMap, weights |-> EmptyMap]
    /\ transformer = EmptyMap
    /\ util = NoHelper

\* Ubpe(n_tokens, alphabet_size), UbpeClassic(n_tokens, alphabet_size)
New(var, ntok, asize) ==
    /\ pc = "start"
    /\ Becomes(NewTokenizer(var, ntok, asize))
    /\ pc' = "unfitted"
    /\ result' = Call("new", <<>>, <<>>, 0, Garbage, 0, Ok(<<>>))
    /\ UNCHANGED <<revision, pred_copied, util, fit_args, fit_trace, restored, restored_result>>

\* Ubpe(n_tokens, alphabet_size, alphabet) and the classic one
NewWithAlphabet(var, ntok, asize, alph) ==
    /\ pc = "start"
    /\ IF AlphabetSizeOk(asize, alph)
       THEN /\ Becomes(NewTokenizerWithAlphabet(var, ntok, asize, alph))
            /\ pc' = "unfitted"
            /\ result' = Call("new_with_alphabet", <<>>, <<>>, 0, Garbage, 0, Ok(<<>>))
       ELSE /\ pc' = "aborted"
            /\ result' = Call("new_with_alphabet", <<>>, <<>>, 0, Garbage, 0,
                              Fail("Precondition"))
            /\ UNCHANGED object
    /\ UNCHANGED <<revision, pred_copied, util, fit_args, fit_trace, restored, restored_result>>

\* Ubpe(n_tokens, alphabet_size, alphabet, inverse_alphabet, forward,
\* backward, weights) and the classic one
NewFromState(var, st) ==
    /\ pc = "start"
    /\ IF StateSizesOk(st)
       THEN /\ Becomes(NewTokenizerFromState(var, st))
            /\ pc' = "from_state"
            /\ result' = Call("new_from_state", <<>>, <<>>, 0, Garbage, 0, Ok(<<>>))
       ELSE /\ pc' = "aborted"
            /\ result' = Call("new_from_state", <<>>, <<>>, 0, Garbage, 0,
                              Fail("Precondition"))
            /\ UNCHANGED object
    /\ UNCHANGED <<revision, pred_copied, util, fit_args, fit_trace, restored, restored_result>>

\* the object and the position after fit gave r = [outcome, T]
FitReturns(r) ==
    /\ Becomes(r.T)
    /\ pc' = CASE r.outcome = "ok" -> "fitted"
               [] r.outcome = "UnknownSymbol" -> "unfitted"
               [] OTHER -> "aborted"
    /\ result' = Call("fit", <<>>, <<>>, 0, Garbage, 0, Fail(r.outcome))
    /\ rounds' = r.rounds
    /\ learned' = r.learned
    /\ transformer' = r.transformer

\* fit(corpus, n_candidates, rearrange_tokens), once, on an unfitted object
FitCall(corp, n_cand, rearrange, wrapped) ==
    /\ pc = "unfitted"
    /\ revision = "cpp"
    /\ Idle
    /\ FitReturns(Fit(This, corp, n_cand, rearrange, wrapped))
    /\ corpus' = corp
    /\ n_candidates' = n_cand
    /\ rearrange_tokens' = rearrange
    /\ UNCHANGED <<revision, pred_copied, util, restored, restored_result>>

\* encode(doc, top_n); oob is what a read past the end of the document gives
Encode(doc, top_n, oob) ==
    /\ Alive
    /\ revision = "cpp"
    /\ Idle
    /\ result' = Call("encode", doc, <<>>, top_n, oob, 0,
                      EncodeOf(This, doc, top_n, oob))
    /\ UNCHANGED <<revision, pred_copied, util, pc, object, fit_args, fit_trace, restored,
                   restored_result>>

\* decode(tokens)
Decode(tokens) ==
    /\ Alive
    /\ revision = "cpp"
    /\ Idle
    /\ result' = Call("decode", <<>>, tokens, 0, Garbage, 0, DecodeOf(This, tokens))
    /\ UNCHANGED <<revision, pred_copied, util, pc, object, fit_args, fit_trace, restored,
                   restored_result>>

\* decode(encode(doc, top_n)[i].sequence): the i-th candidate of the encode
\* that has just returned is decoded
DecodeCandidate(i) ==
    /\ Alive
    /\ revision = "cpp"
    /\ result.op = "encode"
    /\ result.outcome = "ok"
    /\ i \in DOMAIN result.value
    /\ result' = Call("decode", result.doc, result.value[i][1], result.top_n,
                      result.oob, i, DecodeOf(This, result.value[i][1]))
    /\ UNCHANGED <<revision, pred_copied, util, pc, object, fit_args, fit_trace, restored,
                   restored_result>>

\* a second tokenizer is constructed from the state the fitted one exports
Restore ==
    /\ pc = "fitted"
    /\ revision = "cpp"
    /\ Idle
    /\ restored = <<>>
    /\ IF StateSizesOk(ExportedState(This))
       THEN /\ restored' = <<NewTokenizerFromState(variant, ExportedState(This))>>
            /\ pc' = pc
       ELSE /\ restored' = restored
            /\ pc' = "aborted"
    /\ UNCHANGED <<revision, pred_copied, util, object, fit_args, fit_trace, result, restored_result>>

\* the call that was made on the fitted tokenizer is made on the rebuilt one
RestoredEncode(oob) ==
    /\ Alive
    /\ Len(restored) = 1
    /\ result.op = "encode"
    /\ restored_result.op = "none"
    /\ restored_result' = Call("encode", result.doc, <<>>, result.top_n, oob, 0,
                               EncodeOf(restored[1], result.doc, result.top_n, oob))
    /\ UNCHANGED <<revision, pred_copied, util, pc, object, fit_args, fit_trace, result, restored>>

RestoredDecode ==
    /\ Alive
    /\ Len(restored) = 1
    /\ result.op = "decode"
    /\ restored_result.op = "none"
    /\ restored_result' = Call("decode", result.doc, result.tokens, result.top_n,
                               result.oob, result.of,
                               DecodeOf(restored[1], result.tokens))
    /\ UNCHANGED <<revision, pred_copied, util, pc, object, fit_args, fit_trace, result, restored>>

\* src/ubpe_cython: the constructors, encode and decode of the extension
CythonNew(ntok, asize) ==
    /\ pc = "start"
    /\ Becomes(CythonNewTokenizer(ntok, asize))
    /\ pc' = "unfitted"
    /\ revision' = "cython"
    /\ result' = Call("new", <<>>, <<>>, 0, Garbage, 0, Ok(<<>>))
    /\ UNCHANGED <<pred_copied, util, fit_args, fit_trace, restored, restored_result>>

CythonNewFromState(st) ==
    /\ pc = "start"
    /\ revision' = "cython"
    /\ IF StateSizesOk(st)
       THEN /\ Becomes(NewTokenizerFromState("universal", st))
            /\ pc' = "from_state"
            /\ result' = Call("new_from_state", <<>>, <<>>, 0, Garbage, 0, Ok(<<>>))
       ELSE /\ pc' = "aborted"
            /\ result' = Call("new_from_state", <<>>, <<>>, 0, Garbage, 0,
                              Fail("Precondition"))
            /\ UNCHANGED object
    /\ UNCHANGED <<pred_copied, util, fit_args, fit_trace, restored, restored_result>>

\* fit of the extension, once, on an unfitted object
CythonFitCall(corp, n_cand, rearrange) ==
    /\ pc = "unfitted"
    /\ revision = "cython"
    /\ Idle
    /\ FitReturns(CythonFit(This, corp, n_cand, rearrange))
    /\ corpus' = corp
    /\ n_candidates' = n_cand
    /\ rearrange_tokens' = rearrange
    /\ UNCHANGED <<revision, pred_copied, util, restored, restored_result>>

CythonEncodeCall(doc, top_n) ==
    /\ Alive
    /\ revision = "cython"
    /\ Idle
    /\ result' = Call("encode", doc, <<>>, top_n, Garbage, 0, CythonEncode(This, doc))
    /\ UNCHANGED <<revision, pred_copied, util, pc, object, fit_args, fit_trace, restored,
                   restored_result>>

CythonDecodeCall(tokens) ==
    /\ Alive
    /\ revision = "cython"
    /\ Idle
    /\ result' = Call("decode", <<>>, tokens, 0, Garbage, 0, CythonDecode(This, tokens))
    /\ UNCHANGED <<revision, pred_copied, util, pc, object, fit_args, fit_trace, restored,
                   restored_result>>

Next ==
    \/ \E var \in Variants, ntok \in NTokens, asize \in 2..MaxAlphabet :
           New(var, ntok, asize)
    \/ \E var \in Variants, ntok \in NTokens, asize \in 2..MaxAlphabet,
          alph \in AlphabetMaps :
           NewWithAlphabet(var, ntok, asize, alph)
    \/ \E var \in Variants, st \in States : NewFromState(var, st)
    \/ \E corp \in TrainingCorpora, n_cand \in NCandidates,
          rearrange \in BOOLEAN, wrapped \in WrappedAccesses :
           FitCall(corp, n_cand, rearrange, wrapped)
    \/ \E doc \in Docs, top_n \in 1..MaxTopN, oob \in OobValues :
           Encode(doc, top_n, oob)
    \/ \E tokens \in TokenSeqs : Decode(tokens)
    \/ \E i \in 1..MaxTopN : DecodeCandidate(i)
    \/ Restore
    \/ \E oob \in OobValues : RestoredEncode(oob)
    \/ RestoredDecode
    \/ \E ntok \in NTokens, asize \in 2..MaxAlphabet : CythonNew(ntok, asize)
    \/ \E st \in States : CythonNewFromState(st)
    \/ \E corp \in TrainingCorpora, n_cand \in NCandidates,
          rearrange \in BOOLEAN :
           CythonFitCall(corp, n_cand, rearrange)
    \/ \E doc \in Docs, top_n \in 1..MaxTopN : CythonEncodeCall(doc, top_n)
    \/ \E tokens \in TokenSeqs : CythonDecodeCall(tokens)

Spec == Init /\ [][Next]_vars

\* =========================================== the helpers called alone
\* the tokenizer's variables while only a helper is called
Unused ==
    /\ pc = "start"
    /\ variant = "classic"
    /\ n_tokens = 0
    /\ alphabet_size = 0
    /\ alphabet = EmptyMap
    /\ inverse_alphabet = EmptyMap
    /\ tokens_forward_mapper = EmptyMap
    /\ tokens_backward_mapper = EmptyMap
    /\ tokens_weights = EmptyMap
    /\ pairs = <<>>
    /\ lookup = <<>>
    /\ corpus = <<>>
    /\ n_candidates = 0
    /\ rearrange_tokens = FALSE
    /\ result = NoCall
    /\ restored = <<>>
    /\ restored_result = NoCall
    /\ rounds = <<>>
    /\ learned = [bwd |-> EmptyMap, weights |-> EmptyMap]
    /\ transformer = EmptyMap

helper_unchanged == <<revision, pred_copied, pc, object, fit_args, fit_trace, result, restored, restored_result>>

\* the vectors and substitution maps _replace_token_pairs is called with: ids
\* 0..2 in the vector, new ids above them as fit assigns them
MaxVecLen == 4

Vecs == SeqsUpTo(0..2, MaxVecLen) \ {<<>>}

Subs ==
    { EmptyMap,
      0 :> <<1, 3>>,
      0 :> <<0, 3>>,
      (0 :> <<1, 3>>) @@ (2 :> <<2, 4>>),
      (1 :> <<1, 3>>) @@ (0 :> <<2, 4>>) }

ReplaceInputs == { [fn |-> "replace", vec |-> v, sub |-> sb, returned |-> FALSE, out |-> <<>>] : v \in Vecs, sb \in Subs }

\* the keys, documents and reads past the end SSSTree is called with; the
\* value inserted with a key is the number of the insertion
MaxInserts == 3

MaxKeyLen == 3

InsertKeys == SeqsUpTo(0..1, MaxKeyLen) \ {<<>>}

TrieOobValues == {0, 1, Garbage}

EmptyTrie == [fn |-> "trie", tree |-> <<>>, inserted |-> <<>>, returned |-> FALSE, key |-> <<>>, start |-> 0, out |-> <<>>]

\* what SplitPipeline is built from and called with: symbols 0..2, known
\* words that overlap, nest or stand alone, 2 as the break token
MaxSplitLen == 4

SplitAlphabet == (0 :> 1) @@ (1 :> 0) @@ (2 :> 2)

KnownWordLists ==
    { <<<<0, 1>>>>,
      <<<<0>>, <<0, 1>>>>,
      <<<<0, 1>>, <<0, 0>>>>,
      <<<<0, 1, 0>>, <<1>>>>,
      <<>> }

SplitModes == {{"KNOWN_WORDS"}, {"KNOWN_WORDS", "BREAK_TOKENS"}, {"BREAK_TOKENS", "STOP_TOKENS"}}

SplitInputs == { [fn |-> "split", words |-> w, break_tokens |-> b, doc |-> d, mode |-> m, leave_separators |-> l, returned |-> FALSE, out |-> <<>>] : w \in KnownWordLists, b \in {{}, {2}}, d \in SeqsUpTo(0..2, MaxSplitLen), m \in SplitModes, l \in BOOLEAN }

HelperInputs == ReplaceInputs \cup {EmptyTrie} \cup SplitInputs

HelperInit ==
    /\ Unused
    /\ revision \in {"cpp", "cython"}
    /\ pred_copied \in BOOLEAN
    /\ util \in HelperInputs
    \* SSSTree is of the C++ core only
    /\ util.fn \in {"trie", "split"} => revision = "cpp"

\* UbpeBase::_replace_token_pairs(vec, sub) of the C++ core
ReplaceCall ==
    /\ revision = "cpp"
    /\ util.fn = "replace"
    /\ ~util.returned
    /\ util' = [util EXCEPT !.returned = TRUE,
                            !.out = [thrown |-> FALSE,
                                     vec |-> replace_token_pairs(util.vec, util.sub)]]
    /\ UNCHANGED helper_unchanged

\* ubpe::_replace_token_pairs(vec, sub) of the python extension
CythonReplaceCall ==
    /\ revision = "cython"
    /\ util.fn = "replace"
    /\ ~util.returned
    /\ util' = [util EXCEPT !.returned = TRUE,
                            !.out = cython_replace_token_pairs(util.vec, util.sub)]
    /\ UNCHANGED helper_unchanged

\* SSSTree::operator+ on a tree that is being filled
TrieInsertCall(key) ==
    /\ revision = "cpp"
    /\ util.fn = "trie"
    /\ ~util.returned
    /\ Len(util.inserted) < MaxInserts
    /\ LET value == Len(util.inserted) + 1
       IN  util' = [util EXCEPT !.tree = TreeInsert(util.tree, key, value),
                                !.inserted = Append(util.inserted, <<key, value>>)]
    /\ UNCHANGED helper_unchanged

\* SSSTree::operator()(key, start) with start inside the key
TrieLookupCall(key, start, oob) ==
    /\ revision = "cpp"
    /\ util.fn = "trie"
    /\ ~util.returned
    /\ start < Len(key)
    /\ util' = [util EXCEPT !.returned = TRUE, !.key = key, !.start = start,
                            !.out = TreeLookup(util.tree, key, start, oob, pred_copied)]
    /\ UNCHANGED helper_unchanged

\* SplitPipeline(alphabet, config)(doc, mode, leave_separators); the stop
\* tokens are the break tokens
SplitCall(oob) ==
    /\ revision = "cpp"
    /\ util.fn = "split"
    /\ ~util.returned
    /\ util' = [util EXCEPT !.returned = TRUE,
                            !.out = Split(SplitPipeline(SplitAlphabet, util.words,
                                                        util.break_tokens,
                                                        util.break_tokens),
                                          util.doc, util.mode, util.leave_separators,
                                          oob, pred_copied)]
    /\ UNCHANGED helper_unchanged

HelperNext ==
    \/ ReplaceCall
    \/ CythonReplaceCall
    \/ \E key \in InsertKeys : TrieInsertCall(key)
    \/ \E key \in InsertKeys, start \in 0..(MaxKeyLen - 1), oob \in TrieOobValues :
           TrieLookupCall(key, start, oob)
    \/ \E oob \in TrieOobValues : SplitCall(oob)

HelperSpec == HelperInit /\ [][HelperNext]_vars

\* ========================================================= the claims
\* fit has returned on the C++ core
FitReturned == revision = "cpp" /\ pc = "fitted"

\* the corpus of the fit has a document of two or more symbols
HasPair == \E d \in DOMAIN corpus : Len(corpus[d]) >= 2

\* the vocabulary target leaves room for a learned id
HasRoom == n_tokens > alphabet_size

\* the last call was encode of a non-empty document over the alphabet
EncodedAlphabetDoc ==
    /\ result.op = "encode"
    /\ Len(result.doc) > 0
    /\ \A i \in DOMAIN result.doc : result.doc[i] \in DOMAIN alphabet

\* the last call decoded the i-th candidate of an encode, i >= 1
DecodedCandidate == result.op = "decode" /\ result.of >= 1

\* every symbol is its own id
IdentityIds == \A x \in DOMAIN alphabet : alphabet[x] = x

\* universal encode has returned a list for a non-empty document
EncodeReturned ==
    /\ revision = "cpp"
    /\ variant = "universal"
    /\ result.op = "encode"
    /\ result.outcome = "ok"
    /\ Len(result.doc) > 0

\* the keys of the lookup trie and the id each stands for
TrieKeys == {<<t>> : t \in DOMAIN inverse_alphabet} \cup DOMAIN tokens_forward_mapper

TrieValue(k) ==
    IF Len(k) = 1 /\ k[1] \in DOMAIN inverse_alphabet THEN inverse_alphabet[k[1]]
    ELSE tokens_forward_mapper[k]

\* the id sequences of all segmentations of vec[start + 1 ..] into trie keys
RECURSIVE Segmentations(_, _)
Segmentations(vec, start) ==
    IF start = Len(vec) THEN {<<>>}
    ELSE UNION {{<<TrieValue(k)>> \o rest : rest \in Segmentations(vec, start + Len(k))} :
                   k \in {x \in TrieKeys : /\ start + Len(x) <= Len(vec)
                                            /\ SubSeq(vec, start + 1, start + Len(x)) = x}}

\* W(E): sum over the distinct ids t of E of (1 + ln c(t)) * weight(t)
W(seq) ==
    LET ids == {t \in Range(seq) : t \in DOMAIN tokens_weights}
        count(t) == Cardinality({i \in DOMAIN seq : seq[i] = t})
        term[S \in SUBSET ids] ==
            IF S = {} THEN 0
            ELSE LET t == CHOOSE x \in S : TRUE
                 IN  (Scale + LnS(count(t))) * tokens_weights[t] + term[S \ {t}]
    IN  term[ids]

\* C1: classic round trip: on a fitted classic tokenizer encode of a
\* non-empty alphabet document returns a candidate, and decoding the first
\* candidate gives the document back.
C1_ClassicRoundTrip ==
    (FitReturned /\ variant = "classic" /\ HasPair /\ HasRoom) =>
        /\ EncodedAlphabetDoc => (result.outcome = "ok" /\ Len(result.value) >= 1)
        /\ (DecodedCandidate /\ result.of = 1) =>
               (result.outcome = "ok" /\ result.value = result.doc)

C1_Failing ==
    /\ FitReturned /\ variant = "classic"
    /\ n_tokens = 4 /\ alphabet_size = 2
    /\ corpus = <<<<0, 1>>>> /\ rearrange_tokens
    /\ result.op = "encode" /\ result.doc = <<0, 1>>
    /\ result.outcome = "NotFitted"

\* C2: universal round trip: on a fitted universal tokenizer every candidate
\* returned by encode(doc, top_n) decodes to doc, for the identity alphabet
\* and for a caller-supplied one.
C2_UniversalRoundTrip ==
    (FitReturned /\ variant = "universal" /\ HasPair /\ HasRoom /\ DecodedCandidate) =>
        (result.outcome = "ok" /\ result.value = result.doc)

C2_Failing ==
    /\ FitReturned /\ variant = "universal"
    /\ alphabet = Swapped
    /\ DecodedCandidate /\ result.doc = <<0>>
    /\ result.outcome = "ok" /\ result.value = <<1>>

\* C3: universal encode(doc, top_n) returns the top_n segmentations of doc by
\* W: as many as min(top_n, number of segmentations), each a segmentation
\* with its W, and no segmentation left out is heavier than a returned one.
C3_TopNByWeight ==
    (EncodeReturned /\ IdentityIds) =>
        LET segs == Segmentations(doc_to_vec(alphabet, result.doc), 0)
            ret == result.value
            returned == {ret[i][1] : i \in DOMAIN ret}
        IN  /\ Len(ret) = Min({result.top_n, Cardinality(segs)})
            /\ \A i \in DOMAIN ret : ret[i][1] \in segs /\ ret[i][2] = W(ret[i][1])
            /\ \A seq \in segs \ returned : \A i \in DOMAIN ret : W(seq) <= ret[i][2]

C3_Failing ==
    /\ EncodeReturned /\ IdentityIds
    /\ pc = "from_state"
    /\ result.doc = <<0, 1, 0, 1, 1>> /\ result.top_n = 1
    /\ result.value[1][1] = <<2, 2, 1>>
    /\ W(<<2, 0, 3>>) > result.value[1][2]

\* C4 as stated: the list returned by universal encode is strictly
\* weight-descending.
C4_StrictlyDescending ==
    EncodeReturned =>
        \A i \in 1..(Len(result.value) - 1) : result.value[i][2] > result.value[i + 1][2]

\* C4: the list returned by universal encode is ordered by weight, heaviest
\* first, candidates of equal weight by length, shortest first; equal
\* weights, also with equal lengths, do occur.
C4_OrderedByWeightThenLength ==
    EncodeReturned =>
        \A i \in 1..(Len(result.value) - 1) :
            \/ result.value[i][2] > result.value[i + 1][2]
            \/ /\ result.value[i][2] = result.value[i + 1][2]
               /\ Len(result.value[i][1]) <= Len(result.value[i + 1][1])

C4_TieByLength ==
    /\ EncodeReturned
    /\ Len(result.value) = 2
    /\ result.value[1][2] = result.value[2][2]
    /\ Len(result.value[1][1]) < Len(result.value[2][1])

\* C5: after fit(corpus, n_candidates, rearrange_tokens = true) has returned,
\* the learned ids and the alphabet together are at most n_tokens.
C5_VocabularyBound ==
    (FitReturned /\ rearrange_tokens) =>
        Cardinality(DOMAIN tokens_backward_mapper) + alphabet_size <= n_tokens

C5_Pruned ==
    /\ FitReturned /\ rearrange_tokens
    /\ corpus = <<<<0, 1, 0, 1>>, <<0, 1, 0, 2>>>>
    /\ n_tokens = 4 /\ alphabet_size = 3
    /\ Cardinality(DOMAIN tokens_backward_mapper) = 1

\* C6: decode expands ids through the backward mapper down to base ids in
\* both variants: built from the state with backward = {2:[0,1], 3:[2,2]},
\* decode([3]) gives the symbols of [0,1,0,1].
C6_TransitiveDecode ==
    (/\ revision = "cpp" /\ pc = "from_state"
     /\ tokens_backward_mapper = NestedState.bwd
     /\ result.op = "decode" /\ result.tokens = <<3>>) =>
        (result.outcome = "ok" /\ result.value = <<0, 1, 0, 1>>)

C6_Failing ==
    /\ revision = "cpp" /\ pc = "from_state" /\ variant = "universal"
    /\ tokens_backward_mapper = NestedState.bwd
    /\ result.op = "decode" /\ result.tokens = <<3>>
    /\ result.outcome = "UnknownToken"

\* C7: after fit has returned on a corpus with a document of two or more
\* symbols, encode of an alphabet document and decode do not signal
\* NotFitted, with or without rearrangement, also when the corpus ran out of
\* pairs before n_tokens.
C7_FittedAfterFit ==
    (FitReturned /\ HasPair /\ HasRoom) =>
        /\ EncodedAlphabetDoc => result.outcome # "NotFitted"
        /\ result.op = "decode" => result.outcome # "NotFitted"

C7_Failing ==
    /\ FitReturned /\ variant = "universal"
    /\ n_tokens = 4 /\ alphabet_size = 2
    /\ corpus = <<<<0, 1>>>> /\ rearrange_tokens
    /\ result.op = "decode" /\ result.tokens = <<0>>
    /\ result.outcome = "NotFitted"

\* C8: encode and decode on a tokenizer that was constructed and not fitted
\* signal NotFitted; on a fitted one, or one built from a state with learned
\* ids, they do not.
C8_NotFittedSignal ==
    result.op \in {"encode", "decode"} =>
        /\ pc = "unfitted" => result.outcome = "NotFitted"
        /\ (pc = "fitted" /\ HasPair /\ HasRoom) => result.outcome # "NotFitted"
        /\ (pc = "from_state" /\ DOMAIN tokens_backward_mapper # {}) =>
               result.outcome # "NotFitted"

C8_Failing ==
    /\ revision = "cython" /\ pc = "unfitted"
    /\ result.op = "encode" /\ result.doc = <<>>
    /\ result.outcome = "ok"

\* C9: no constructor gives a tokenizer whose n_tokens is below its
\* alphabet_size.
C9_TargetBelowAlphabetRejected ==
    pc \in {"unfitted", "from_state"} => n_tokens >= alphabet_size

C9_Failing ==
    /\ revision = "cpp" /\ pc = "unfitted"
    /\ result.op = "new" /\ result.outcome = "ok"
    /\ n_tokens = 1 /\ alphabet_size = 2

\* the call on the rebuilt tokenizer is the last call on the fitted one
SameCall ==
    /\ restored_result.op = result.op
    /\ restored_result.doc = result.doc
    /\ restored_result.tokens = result.tokens
    /\ restored_result.top_n = result.top_n

\* C10: the tokenizer built from the state a fitted one exports has the same
\* pairs and lookup trie, and a call on it gives what the same call on the
\* fitted one gave.
C10_RestoredSameResults ==
    Len(restored) = 1 =>
        /\ restored[1] = This
        /\ SameCall =>
               /\ restored_result.outcome = result.outcome
               /\ restored_result.value = result.value

C10_Failing ==
    /\ Len(restored) = 1
    /\ SameCall
    /\ result.op = "encode" /\ result.doc = <<0>> /\ result.outcome = "ok"
    /\ restored_result.outcome = "OutOfRange"

\* encode has returned on the C++ core
EncodeGaveList == revision = "cpp" /\ result.op = "encode" /\ result.outcome = "ok"

\* C11: size of the encode result: the empty list for the empty document;
\* for a non-empty document one pair from classic encode whatever top_n is,
\* and from universal encode at least one pair and at most top_n.
C11_ResultSize ==
    EncodeGaveList =>
        IF Len(result.doc) = 0 THEN result.value = <<>>
        ELSE IF variant = "classic" THEN Len(result.value) = 1
        ELSE Len(result.value) >= 1 /\ Len(result.value) <= result.top_n

C11_Capped ==
    /\ EncodeGaveList /\ variant = "universal" /\ IdentityIds
    /\ Len(result.doc) > 0
    /\ Len(result.value) = result.top_n
    /\ Cardinality(Segmentations(doc_to_vec(alphabet, result.doc), 0)) > result.top_n

\* C12: after fit forward and backward are mutual inverses over the learned
\* ids: no two learned ids have one backward sequence, forward[backward[t]]
\* is t for every learned t, and every key of forward is some backward[t].
C12_MutualInverses ==
    FitReturned =>
        /\ \A t, u \in DOMAIN tokens_backward_mapper :
               tokens_backward_mapper[t] = tokens_backward_mapper[u] => t = u
        /\ \A t \in DOMAIN tokens_backward_mapper :
               /\ tokens_backward_mapper[t] \in DOMAIN tokens_forward_mapper
               /\ tokens_forward_mapper[tokens_backward_mapper[t]] = t
        /\ \A k \in DOMAIN tokens_forward_mapper :
               \E t \in DOMAIN tokens_backward_mapper : tokens_backward_mapper[t] = k

C12_Failing ==
    /\ FitReturned /\ variant = "classic"
    /\ n_tokens = 5 /\ alphabet_size = 2
    /\ corpus = <<<<0, 0, 0, 0, 0, 1>>>> /\ n_candidates = 1 /\ rearrange_tokens
    /\ learned.bwd = (2 :> <<0, 1>>) @@ (3 :> <<0, 2>>) @@ (4 :> <<0, 3>>) @@ (5 :> <<0, 0>>)
    /\ tokens_backward_mapper = (2 :> <<0, 0>>) @@ (3 :> <<0, 0>>)
    /\ tokens_forward_mapper = (<<0, 0>> :> 2)

\* the fit of scenario 1 has returned: symbols a, b, c with ids 0, 1, 2,
\* corpus ["abab", "abac"], n_tokens = 4, n_candidates = 5, classic
ScenarioOneFitted ==
    /\ FitReturned /\ variant = "classic" /\ IdentityIds
    /\ n_tokens = 4 /\ alphabet_size = 3
    /\ corpus = <<<<0, 1, 0, 1>>, <<0, 1, 0, 2>>>>
    /\ n_candidates = ManyCandidates

\* C13: scenario 1: after the fit there is one learned id, 3, with
\* backward[3] = [0,1], and classic encode("abab") returns the sequence [3,3].
C13_ScenarioOne ==
    ScenarioOneFitted =>
        /\ tokens_backward_mapper = (3 :> <<0, 1>>)
        /\ (result.op = "encode" /\ result.doc = <<0, 1, 0, 1>>) =>
               (result.outcome = "ok" /\ result.value[1][1] = <<3, 3>>)

C13_Failing ==
    /\ ScenarioOneFitted /\ rearrange_tokens
    /\ rounds[1].mc[1][1] = <<0, 2>>
    /\ tokens_backward_mapper = (3 :> <<1, 0>>)
    /\ result.op = "encode" /\ result.doc = <<0, 1, 0, 1>>
    /\ result.outcome = "ok" /\ result.value[1][1] = <<0, 3, 1>>

\* the <<key, value>> entries of a trie, keys spelled out from the root
RECURSIVE NodeEntries(_, _)
NodeEntries(node, prefix) ==
    (IF node.value = NoValue THEN {} ELSE {<<prefix \o node.key, node.value[1]>>})
    \cup UNION {NodeEntries(node.children[i], prefix \o node.key) :
                   i \in DOMAIN node.children}

TrieEntries(tree) == UNION {NodeEntries(tree[i], <<>>) : i \in DOMAIN tree}

\* a universal tokenizer whose lookup trie has been built
TrieBuilt ==
    /\ revision = "cpp" /\ variant = "universal"
    /\ pc \in {"fitted", "from_state"}

\* C14: the lookup trie built by fit and by the from-state constructor maps
\* each singleton key [a] to the base id a and each backward[t] to t, so
\* every id encode emits is a base id or a learned id.
C14_TrieValues ==
    TrieBuilt =>
        /\ TrieEntries(lookup) =
               {<<<<a>>, a>> : a \in DOMAIN inverse_alphabet}
               \cup {<<tokens_backward_mapper[t], t>> : t \in DOMAIN tokens_backward_mapper}
        /\ (result.op = "encode" /\ result.outcome = "ok") =>
               \A i \in DOMAIN result.value : \A j \in DOMAIN result.value[i][1] :
                   result.value[i][1][j] \in (0..(alphabet_size - 1))
                                              \cup DOMAIN tokens_backward_mapper

C14_Failing ==
    /\ TrieBuilt /\ pc = "fitted"
    /\ alphabet = Swapped
    /\ <<<<0>>, 1>> \in TrieEntries(lookup)
    /\ <<<<1>>, 0>> \in TrieEntries(lookup)

\* lexicographic "less than" on pairs of ids
PairLess(p, q) == p[1] < q[1] \/ (p[1] = q[1] /\ p[2] < q[2])

\* the greatest total in a counter
MaxTotal(counter) ==
    CHOOSE m \in {counter[p][2] : p \in DOMAIN counter} :
        \A p \in DOMAIN counter : counter[p][2] <= m

Min2(a, b) == IF a < b THEN a ELSE b

\* what C15 says of one call most_common(n) = mc on a counter
MostCommonAsStated(counter, n, mc) ==
    /\ Len(mc) = Min2(n, Cardinality(DOMAIN counter))
    /\ \A j \in DOMAIN mc : mc[j][1] \in DOMAIN counter /\ mc[j][2] = counter[mc[j][1]][2]
    /\ \A j, k \in DOMAIN mc :
          j < k => \/ mc[j][2] > mc[k][2]
                   \/ (mc[j][2] = mc[k][2] /\ PairLess(mc[k][1], mc[j][1]))
    /\ mc # <<>> => mc[1][2] = MaxTotal(counter)

\* C15: most_common(n) returns min(n, number of distinct pairs) entries in
\* descending total, ties by pair value descending, for every n >= 1; its
\* first entry, the seed of every merge round, has the maximum total.
C15_MostCommonDescending ==
    FitReturned =>
        \A r \in DOMAIN rounds :
            MostCommonAsStated(rounds[r].pairs_counter, n_candidates, rounds[r].mc)

C15_Failing ==
    /\ FitReturned /\ rounds # <<>>
    /\ n_candidates = 1
    /\ corpus = <<<<0, 1, 0, 1>>, <<0, 1, 0, 2>>>>
    /\ rounds[1].pairs_counter[<<0, 1>>][2] = 3
    /\ rounds[1].mc = <<<<<<0, 2>>, 1>>>>

\* the component ids of a pair
Components(p) == {p[1], p[2]}

\* the ids created by round r
CreatedIn(r) ==
    (rounds[r].max_token + 1)..(rounds[r].max_token + Len(rounds[r].token_pairs))

\* C16: in every merge round of fit the component ids of the accepted pairs
\* are pairwise disjoint across pairs, so the first_id keys of the
\* substitution map are unique, and no id created in the round is a
\* component of a pair accepted in the same round.
C16_NonOverlap ==
    FitReturned =>
        \A r \in DOMAIN rounds :
            LET tp == rounds[r].token_pairs
            IN  /\ \A j, k \in DOMAIN tp :
                      j # k => Components(tp[j][1]) \cap Components(tp[k][1]) = {}
                /\ \A j, k \in DOMAIN tp : j # k => tp[j][1][1] # tp[k][1][1]
                /\ \A j \in DOMAIN tp : Components(tp[j][1]) \cap CreatedIn(r) = {}

\* a round that accepted two pairs and passed over a candidate sharing an id
\* with the batch
C16_TwoAccepted ==
    /\ FitReturned
    /\ \E r \in DOMAIN rounds :
          /\ Len(rounds[r].token_pairs) >= 2
          /\ \E i \in DOMAIN rounds[r].mc :
                /\ \A k \in DOMAIN rounds[r].token_pairs :
                      rounds[r].token_pairs[k] # rounds[r].mc[i]
                /\ \E k \in DOMAIN rounds[r].token_pairs :
                      Components(rounds[r].mc[i][1])
                          \cap Components(rounds[r].token_pairs[k][1]) # {}

\* the candidates of round r accepted before candidate i was examined
AcceptedBefore(r, i) ==
    {rounds[r].mc[j] : j \in {k \in 1..(i - 1) :
                                \E a \in DOMAIN rounds[r].token_pairs :
                                    rounds[r].token_pairs[a] = rounds[r].mc[k]}}

Accepted(r, i) ==
    \E a \in DOMAIN rounds[r].token_pairs : rounds[r].token_pairs[a] = rounds[r].mc[i]

\* candidate i of round r shares no id with the pairs accepted before it
PassesCurrentSet(r, i) ==
    \A q \in AcceptedBefore(r, i) :
        Components(rounds[r].mc[i][1]) \cap Components(q[1]) = {}

\* total occurrences of a pair in the counter of round r, 0 if absent
TotalIn(r, p) ==
    IF p \in DOMAIN rounds[r].pairs_counter THEN rounds[r].pairs_counter[p][2] ELSE 0

\* the greater of the totals of the two border pairs of p and q in round r
BorderTotal(r, p, q) ==
    Max({TotalIn(r, <<p[2], q[1]>>), TotalIn(r, <<q[2], p[1]>>)})

BorderTie(r, i) ==
    /\ PassesCurrentSet(r, i)
    /\ \E q \in AcceptedBefore(r, i) :
          BorderTotal(r, rounds[r].mc[i][1], q[1]) = rounds[r].mc[i][2]
    /\ \A q \in AcceptedBefore(r, i) :
          BorderTotal(r, rounds[r].mc[i][1], q[1]) <= rounds[r].mc[i][2]

\* C18: when a border pair is exactly as frequent as the candidate and none
\* is strictly more frequent, the candidate is accepted into the batch.
C18_TieAccepted ==
    FitReturned =>
        \A r \in DOMAIN rounds : \A i \in 2..Len(rounds[r].mc) :
            BorderTie(r, i) => Accepted(r, i)

C18_Failing ==
    /\ FitReturned
    /\ corpus = <<<<1, 1, 0, 1>>, <<1, 1, 0, 0>>>>
    /\ n_candidates = ManyCandidates
    /\ rounds # <<>>
    /\ rounds[1].mc = <<<<<<0, 0>>, 1>>, <<<<0, 1>>, 1>>, <<<<1, 0>>, 2>>, <<<<1, 1>>, 2>>>>
    /\ BorderTie(1, 4)
    /\ rounds[1].token_pairs = <<<<<<0, 0>>, 1>>>>

\* the number of documents holding the j-th pair accepted in round r, and the
\* id the round gave to that pair
DocFreq(r, j) == rounds[r].pairs_counter[rounds[r].token_pairs[j][1]][1]

IdOf(r, j) == rounds[r].max_token + j

\* C19: of two pairs created in the same round, the one found in fewer
\* documents has the strictly greater weight, and each weight is the
\* logarithm of the real-valued quotient (1 + |corpus|) / (1 + doc_freq).
C19_WeightMonotone ==
    \A r \in DOMAIN rounds : \A j, k \in DOMAIN rounds[r].token_pairs :
        /\ DocFreq(r, j) < DocFreq(r, k) =>
               learned.weights[IdOf(r, j)] > learned.weights[IdOf(r, k)]
        /\ learned.weights[IdOf(r, j)] =
               LnS(1 + Len(corpus)) - LnS(1 + DocFreq(r, j))

C19_Failing ==
    /\ revision = "cython"
    /\ result.op = "fit"
    /\ corpus = <<<<0, 0>>, <<1, 1, 2, 0, 0>>>>
    /\ Len(rounds) = 1
    /\ rounds[1].token_pairs = <<<<<<0, 0>>, 2>>, <<<<1, 1>>, 1>>>>
    /\ DocFreq(1, 2) < DocFreq(1, 1)
    /\ learned.weights[IdOf(1, 2)] = 0
    /\ learned.weights[IdOf(1, 1)] = 0
    /\ tokens_weights = learned.weights

\* a fit of the core that went through _rearrange_tokens_by_weight
Rearranged == FitReturned /\ rearrange_tokens

\* the learned ids the rearrangement kept, under their old numbers
Survivors == DOMAIN transformer \ (0..(alphabet_size - 1))

\* C20: after the rearrangement the surviving learned ids are exactly
\* alphabet_size .. alphabet_size + k - 1, each survivor keeps the weight it
\* had before relabelling, and weights are non-increasing in id.
C20_RearrangedRange ==
    Rearranged =>
        /\ DOMAIN tokens_weights =
               alphabet_size..(alphabet_size + Cardinality(Survivors) - 1)
        /\ DOMAIN tokens_backward_mapper = DOMAIN tokens_weights
        /\ \A t \in Survivors :
               /\ transformer[t] \in DOMAIN tokens_weights
               /\ tokens_weights[transformer[t]] = learned.weights[t]
        /\ \A t, u \in Survivors : t # u => transformer[t] # transformer[u]
        /\ \A a, b \in DOMAIN tokens_weights :
               a < b => tokens_weights[a] >= tokens_weights[b]

\* a rearrangement that pruned an id, renumbered a survivor and kept two
\* survivors of different weight
C20_Relabelled ==
    /\ Rearranged
    /\ Cardinality(Survivors) < Cardinality(DOMAIN learned.weights)
    /\ \E t \in Survivors : transformer[t] # t
    /\ \E a, b \in DOMAIN tokens_weights : tokens_weights[a] > tokens_weights[b]

\* the learned ids the rearrangement deleted, under their old numbers
Deleted == DOMAIN learned.bwd \ Survivors

\* C21: after the rearrangement, every element of the backward sequence of a
\* surviving learned id is a base id or a surviving learned id, and the new
\* sequence is the old one relabelled element by element.
C21_NoDanglingReferences ==
    Rearranged =>
        \A t \in Survivors :
            /\ \A k \in DOMAIN learned.bwd[t] : learned.bwd[t][k] \notin Deleted
            /\ tokens_backward_mapper[transformer[t]] =
                   [k \in DOMAIN learned.bwd[t] |-> transformer[learned.bwd[t][k]]]

C21_Failing ==
    /\ Rearranged /\ variant = "classic"
    /\ n_tokens = 5 /\ alphabet_size = 2
    /\ corpus = <<<<0, 0, 0, 0, 0, 1>>>>
    /\ n_candidates = 1
    /\ 3 \in Deleted
    /\ 4 \in Survivors
    /\ learned.bwd[4] = <<0, 3>>
    /\ tokens_backward_mapper[transformer[4]] = <<0, 0>>

\* the excess of the learned vocabulary over the target at the exit of the
\* training loop
Excess == Cardinality(DOMAIN learned.bwd) - (n_tokens - alphabet_size)

\* old id d has a backward sequence that holds a learned id of set S
References(d, S) == \E k \in DOMAIN learned.bwd[d] : learned.bwd[d][k] \in S

\* fewer than n learned ids are strictly lighter than d
AmongLowest(d, n) ==
    Cardinality({t \in DOMAIN learned.bwd :
                    learned.weights[t] < learned.weights[d]}) < n

\* C22: when the excess D is positive and no backward sequence references a
\* learned id, the rearrangement deletes exactly D ids, none heavier than a
\* survivor; in general an id is deleted only if it is among the D lowest
\* by weight or its backward sequence references a deleted id.
C22_MinimalPruning ==
    (Rearranged /\ Excess > 0) =>
        /\ Cardinality(Deleted) >= Excess
        /\ \A d \in Deleted : AmongLowest(d, Excess) \/ References(d, Deleted)
        /\ (\A t \in DOMAIN learned.bwd : ~References(t, DOMAIN learned.bwd)) =>
               /\ Cardinality(Deleted) = Excess
               /\ \A d \in Deleted : \A t \in Survivors :
                      learned.weights[d] <= learned.weights[t]

\* a pruning by weight: no references, a deleted id lighter than a
\* survivor and of a higher number than it
C22_LightestPruned ==
    /\ Rearranged /\ Excess > 0
    /\ \A t \in DOMAIN learned.bwd : ~References(t, DOMAIN learned.bwd)
    /\ \E d \in Deleted : \E t \in Survivors :
          learned.weights[d] < learned.weights[t] /\ t < d

\* a substitution has returned or thrown
Replaced == util.fn = "replace" /\ util.returned

\* the ids of `out` with every new id of sub put back as the pair it stands for
RECURSIVE PutBack(_, _)
PutBack(out, sub) ==
    IF out = <<>> THEN <<>>
    ELSE LET firsts == {f \in DOMAIN sub : sub[f][2] = Head(out)}
         IN  (IF firsts = {} THEN <<Head(out)>>
              ELSE LET f == CHOOSE x \in firsts : TRUE IN <<f, sub[f][1]>>)
             \o PutBack(Tail(out), sub)

\* C23: for every non-empty vector and every substitution map, the pair
\* substitution returns a vector no longer than its input whose elements are
\* ids of the input or new ids of the map, and putting the pairs back in
\* place of the new ids gives the input again (each input position is used
\* exactly once)
C23_SubstitutionSafe ==
    Replaced =>
        /\ ~util.out.thrown
        /\ Len(util.out.vec) <= Len(util.vec)
        /\ Range(util.out.vec) \subseteq
               Range(util.vec) \cup {util.sub[f][2] : f \in DOMAIN util.sub}
        /\ PutBack(util.out.vec, util.sub) = util.vec

\* the python extension's substitution of [0, 1] under 0 -> (1, 3) leaves by
\* std::length_error with the vector untouched
C23_Failing ==
    /\ Replaced
    /\ revision = "cython"
    /\ util.vec = <<0, 1>>
    /\ util.sub = (0 :> <<1, 3>>)
    /\ util.out.thrown
    /\ util.out.vec = <<0, 1>>

\* a prefix lookup on a filled trie has returned or thrown
LookedUp == util.fn = "trie" /\ util.returned

\* the value first inserted with key k
FirstInserted(k) ==
    util.inserted[Min({i \in DOMAIN util.inserted : util.inserted[i][1] = k})][2]

\* the inserted keys that are prefixes of key[start..], shortest first, each
\* with the value first inserted for it
PrefixesAsStated ==
    LET n == Len(util.key) - util.start
        cut == [len \in 1..n |-> SubSeq(util.key, util.start + 1, util.start + len)]
        found == SelectSeq(cut, LAMBDA k : \E i \in DOMAIN util.inserted : util.inserted[i][1] = k)
    IN  [i \in DOMAIN found |-> <<found[i], FirstInserted(found[i])>>]

\* C24: after any sequence of inserts of non-empty keys, the prefix lookup
\* of (doc, start) returns exactly the inserted keys that are prefixes of
\* doc[start..], each with its whole key and the value first inserted for it,
\* by increasing length, also through value-less nodes made by edge splits
C24_PrefixLookup ==
    LookedUp => /\ ~util.out.thrown
                /\ util.out.prefixes = PrefixesAsStated

\* [0] and [0,1] are inserted; the lookup of [0] reads one past the end of
\* the document, reads a 1 there and throws out_of_range
C24_Failing ==
    /\ LookedUp
    /\ util.inserted = <<<<<<0>>, 1>>, <<<<0, 1>>, 2>>>>
    /\ util.key = <<0>>
    /\ util.start = 0
    /\ util.out.thrown

\* classic encode of the C++ core was called on a fitted tokenizer with a
\* non-empty document of alphabet symbols, so its loop was entered
ClassicLoopEntered ==
    /\ revision = "cpp"
    /\ variant = "classic"
    /\ result.op = "encode"
    /\ Len(result.doc) > 0
    /\ result.outcome \notin {"NotFitted", "UnknownSymbol"}

\* C25: classic encode of a non-empty document of alphabet symbols leaves
\* its greedy loop and returns, and no two adjacent ids of the returned
\* sequence form a pair of `pairs`, that is a key of the forward mapper
C25_GreedyFixedPoint ==
    ClassicLoopEntered =>
        /\ result.outcome = "ok"
        /\ LET seq == result.value[1][1]
           IN  \A k \in 1..(Len(seq) - 1) :
                   /\ <<seq[k], seq[k + 1]>> \notin Range(pairs)
                   /\ <<seq[k], seq[k + 1]>> \notin DOMAIN tokens_forward_mapper

\* the loop made two passes: [0,1,0,1] became [2,2] and then [3]
C25_TwoPasses ==
    /\ ClassicLoopEntered
    /\ result.doc = <<0, 1, 0, 1>>
    /\ <<0, 1>> \in Range(pairs)
    /\ <<2, 2>> \in Range(pairs)
    /\ result.outcome = "ok"
    /\ result.value[1][1] = <<3>>

\* the splitter was called in known-words mode with known words and with
\* leave_separators
SplitByKnownWords ==
    /\ util.fn = "split"
    /\ util.returned
    /\ "KNOWN_WORDS" \in util.mode
    /\ util.words # <<>>
    /\ util.leave_separators

\* the pipeline of the call
Pipeline == SplitPipeline(SplitAlphabet, util.words, util.break_tokens, util.break_tokens)

\* the known words that stand at 0-based position i of the document
WordsAt(i) ==
    {w \in Range(util.words) : /\ i + Len(w) <= Len(util.doc)
                               /\ SubSeq(util.doc, i + 1, i + Len(w)) = w}

\* longest-match segmentation from position i on, the stretch since
\* part_begin not yet emitted
RECURSIVE Segmentation(_, _)
Segmentation(i, part_begin) ==
    LET stretch(to) == IF to # part_begin
                       THEN SplitToIds(Pipeline, SubSeq(util.doc, part_begin + 1, to),
                                       util.mode, TRUE)
                       ELSE <<>>
    IN  IF i >= Len(util.doc) THEN stretch(Len(util.doc))
        ELSE IF WordsAt(i) = {} THEN Segmentation(i + 1, part_begin)
        ELSE LET w == CHOOSE x \in WordsAt(i) : \A y \in WordsAt(i) : Len(y) <= Len(x)
             IN  stretch(i) \o <<<<Pipeline.known_words[w]>>>>
                     \o Segmentation(i + Len(w), i + Len(w))

\* C26: in known-words mode the splitter segments by longest match from left
\* to right: every non-overlapping occurrence of a known word, one that
\* starts right after the previous match included, is emitted as a singleton
\* part holding the word's id, and the stretches between matches go through
\* the remaining modes
C26_LongestMatch ==
    SplitByKnownWords => /\ ~util.out.thrown
                         /\ util.out.parts = Segmentation(0, 0)

\* the known word [0,1] stands twice in [0,1,0,1]; the second occurrence is
\* returned as an ordinary part
C26_Failing ==
    /\ SplitByKnownWords
    /\ util.words = <<<<0, 1>>>>
    /\ util.doc = <<0, 1, 0, 1>>
    /\ util.mode = {"KNOWN_WORDS"}
    /\ ~util.out.thrown
    /\ util.out.parts = <<<<3>>, <<1, 0>>>>

\* fit rearranged no more learned ids than the vocabulary has room for
NoExcess == Rearranged /\ Cardinality(DOMAIN learned.bwd) <= n_tokens - alphabet_size

\* how many ids of the map have the weight w
WeightCount(weights, w) == Cardinality({t \in DOMAIN weights : weights[t] = w})

\* C27: when the learned ids are no more than n_tokens - alphabet_size, the
\* rearrangement deletes no id and only relabels: as many backward sequences
\* as were learned are kept, each the relabelled image of a learned one, and
\* the weights are the same with the same multiplicities
C27_OnlyRelabels ==
    NoExcess =>
        /\ Deleted = {}
        /\ Cardinality(DOMAIN tokens_backward_mapper) = Cardinality(DOMAIN learned.bwd)
        /\ \A t \in DOMAIN learned.bwd :
               /\ transformer[t] \in DOMAIN tokens_backward_mapper
               /\ Len(tokens_backward_mapper[transformer[t]]) = Len(learned.bwd[t])
        /\ \A t \in DOMAIN learned.weights :
               WeightCount(tokens_weights, learned.weights[t])
                   = WeightCount(learned.weights, learned.weights[t])

\* one id was learned where two had room, and the rearrangement deleted it
C27_Failing ==
    /\ NoExcess
    /\ n_tokens = 4
    /\ alphabet_size = 2
    /\ corpus = <<<<0, 1>>>>
    /\ learned.bwd = (2 :> <<0, 1>>)
    /\ tokens_backward_mapper = EmptyMap
    /\ tokens_weights = EmptyMap

\* fit has returned on the C++ core without rearrangement
FitKeptOrder == FitReturned /\ ~rearrange_tokens

\* the learned ids are consecutive from alphabet_size
LearnedConsecutive ==
    DOMAIN tokens_backward_mapper
        = alphabet_size..(alphabet_size + Cardinality(DOMAIN tokens_backward_mapper) - 1)

\* C28 as stated: after fit without rearrangement the learned ids are the
\* consecutive range from alphabet_size and alphabet_size plus their number
\* is at most n_tokens, whatever n_candidates is
C28_WithinTarget ==
    FitKeptOrder =>
        /\ LearnedConsecutive
        /\ alphabet_size + Cardinality(DOMAIN tokens_backward_mapper) <= n_tokens

\* C28 amended: after fit without rearrangement the learned ids are the
\* consecutive range from alphabet_size; only the vocabulary before the last
\* round is within n_tokens: a round starts while max_token < n_tokens and
\* adds its whole batch, so the vocabulary exceeds n_tokens by at most the
\* size of the last batch, which is at most n_candidates
C28_LastBatchOvershoots ==
    FitKeptOrder =>
        /\ LearnedConsecutive
        /\ rounds = <<>> => DOMAIN tokens_backward_mapper = {}
        /\ rounds # <<>> =>
               LET last == Len(rounds[Len(rounds)].token_pairs)
               IN  /\ last <= n_candidates
                   /\ alphabet_size + Cardinality(DOMAIN tokens_backward_mapper) - last
                          <= n_tokens

\* the last round started with the vocabulary at n_tokens and added a batch
\* of two
C28_PastTarget ==
    /\ FitKeptOrder
    /\ rounds # <<>>
    /\ Len(rounds[Len(rounds)].token_pairs) = 2
    /\ alphabet_size + Cardinality(DOMAIN tokens_backward_mapper) = n_tokens + 2

\* fit of the C++ core went through at least one merge round
Merged == revision = "cpp" /\ rounds # <<>>

\* the documents of the corpus as the vectors of ids the loop started from
OriginalIds == [d \in DOMAIN corpus |-> doc_to_vec(alphabet, corpus[d])]

\* vec with every learned id replaced by its backward sequence, transitively
RECURSIVE Unfold(_, _)
Unfold(bwd, vec) ==
    IF vec = <<>> THEN <<>>
    ELSE (IF Head(vec) \in DOMAIN bwd THEN Unfold(bwd, bwd[Head(vec)])
          ELSE <<Head(vec)>>) \o Unfold(bwd, Tail(vec))

\* C29: after every merge round of fit, before the rearrangement, each
\* document of the working corpus expands through the backward mapper to the
\* original ids of that document, holds only base ids and learned ids
\* assigned so far, and holds none of the pairs accepted in the round side
\* by side
C29_CorpusPreserved ==
    Merged =>
        \A r \in DOMAIN rounds : \A d \in DOMAIN rounds[r].work :
            LET work == rounds[r].work[d]
                accepted == rounds[r].token_pairs
                assigned == alphabet_size..(rounds[r].max_token + Len(accepted))
            IN  /\ Unfold(learned.bwd, work) = OriginalIds[d]
                /\ Range(work) \subseteq Range(alphabet) \cup assigned
                /\ \A k \in DOMAIN accepted : accepted[k][1] \notin Range(DocPairs(work))

\* two rounds rewrote the same document of the classic variant, the second
\* merging ids made by the first
C29_TwiceRewritten ==
    /\ Merged
    /\ variant = "classic"
    /\ Len(rounds) >= 2
    /\ \E d \in DOMAIN corpus :
           /\ Len(rounds[2].work[d]) < Len(rounds[1].work[d])
           /\ Len(rounds[1].work[d]) < Len(corpus[d])
           /\ \E k \in DOMAIN rounds[2].token_pairs :
                  rounds[2].token_pairs[k][1][1] >= alphabet_size

\* fit of the C++ core got past its preconditions on a corpus that has a
\* document of no or one symbol
ShortDocs == {d \in DOMAIN corpus : Len(corpus[d]) <= 1}

FitWithShortDocs ==
    /\ revision = "cpp"
    /\ result.op = "fit"
    /\ result.outcome \notin {"Precondition", "UnknownSymbol"}
    /\ alphabet_size - 1 < n_tokens
    /\ ShortDocs # {}

\* the corpus of ids without its short documents
LongDocs == SelectSeq(OriginalIds, LAMBDA vec : Len(vec) > 1)

\* _corpus at the start of round r
WorkBefore(r) == IF r = 1 THEN OriginalIds ELSE rounds[r - 1].work

\* C30: a document of no or one symbol is safe in training: fit makes no
\* out-of-range access and completes, the document adds no pair to the
\* counter of any round and is left as it is by the rewrite, and the ids
\* learned are those learned from the corpus without such documents
C30_ShortDocsSafe ==
    FitWithShortDocs =>
        /\ result.outcome # "Undefined"
        /\ \A r \in DOMAIN rounds :
               /\ \A d \in ShortDocs : rounds[r].work[d] = OriginalIds[d]
               /\ rounds[r].pairs_counter
                      = PairCounter(SelectSeq(WorkBefore(r), LAMBDA vec : Len(vec) > 1))
        /\ learned.bwd = FitLoop(variant, n_tokens, Len(LongDocs), n_candidates, LongDocs,
                                 alphabet_size - 1, EmptyMap, EmptyMap, <<>>).bwd

\* the corpus [[], [1], [0,1]]: the counter of the first round reads past
\* the end of the empty document and the call ends there
C30_Failing ==
    /\ FitWithShortDocs
    /\ corpus = <<<<>>, <<1>>, <<0, 1>>>>
    /\ n_tokens = 3
    /\ alphabet_size = 2
    /\ result.outcome = "Undefined"
    /\ pc = "aborted"
    /\ tokens_backward_mapper = EmptyMap

====
